---------------------------- MODULE Spec2Model ----------------------------
(***************************************************************************)
(* Model of the seasonsbot moderation ledger: the violation catalog        *)
(* (violations.py), the warning / ban-request store (database.py), the    *)
(* license store (license_manager.py) and the handlers of bot.py that      *)
(* drive them.                                                             *)
(*                                                                         *)
(* Time is counted in days.  A handler reads the clock once: the several   *)
(* datetime.now() calls of one call of the code are microseconds apart.    *)
(* Strings the code converts (ids, dictionary keys, ISO timestamps) are    *)
(* sequences of characters, a character being a number: 0..9 are the       *)
(* digits.                                                                 *)
(***************************************************************************)
EXTENDS Integers, Sequences, FiniteSets, TLC

VARIABLES
    now,        \* the wall clock, datetime.now(), in days
    db,         \* the document in warnings.json: users, warnings, bans
    lic,        \* the document in licenses.json
    nextMsg,    \* the id Discord gives the next message sent to the ban channel
    assigned,   \* history: the ids add_warning has returned, in order
    ret,        \* the last handler that ran, its arguments and what it returned
    inflight    \* the calls in progress between their load and their save:
                \* what each loaded, what it will write, what it returned

vars == <<now, db, lic, nextMsg, assigned, ret, inflight>>

----------------------------------------------------------------------------
(* Bounds of the model *)

MaxWarnings == 2
MaxClock == 15
MaxClockExpiry == 58
MaxLicenseOps == 4
MaxPrior == 4
MaxPoints == 104
MaxLedger == 4
MaxMessages == 2
MaxOrdered == 3
MaxBelowZero == 5
MaxIssued == 3
MaxRacingOps == 2

----------------------------------------------------------------------------
(* Python's str / int / isdigit on decimal strings, and dictionaries *)

Digits == 0 .. 9

RECURSIVE Str(_)
Str(n) == IF n < 10 THEN <<n>> ELSE Append(Str(n \div 10), n % 10)

IsDigit(s) == Len(s) > 0 /\ \A i \in 1 .. Len(s) : s[i] \in Digits

RECURSIVE ParseInt(_)
ParseInt(s) == IF Len(s) = 1 THEN s[1]
               ELSE 10 * ParseInt(SubSeq(s, 1, Len(s) - 1)) + s[Len(s)]

EmptyDict == [k \in {} |-> k]

DictPut(d, key, val) == [k \in DOMAIN d \cup {key} |-> IF k = key THEN val ELSE d[k]]

DictDel(d, key) == [k \in DOMAIN d \ {key} |-> d[k]]

(* datetime.isoformat() and datetime.fromisoformat(): fixed-width, zero-padded *)
IsoFormat(t) == <<t \div 100, (t \div 10) % 10, t % 10>>

FromIsoFormat(s) == 100 * s[1] + 10 * s[2] + s[3]

(* the order of Python strings: lexicographic, a proper prefix first *)
RECURSIVE StrLess(_, _)
StrLess(a, b) ==
    IF Len(b) = 0 THEN FALSE
    ELSE IF Len(a) = 0 THEN TRUE
    ELSE IF a[1] # b[1] THEN a[1] < b[1]
    ELSE StrLess(Tail(a), Tail(b))

(* sorted(ws, key=lambda x: x["timestamp"], reverse=True): stable *)
RECURSIVE InsertDesc(_, _)
InsertDesc(sorted, w) ==
    IF Len(sorted) = 0 THEN <<w>>
    ELSE IF StrLess(Head(sorted).timestamp, w.timestamp)
         THEN <<w>> \o sorted
         ELSE <<Head(sorted)>> \o InsertDesc(Tail(sorted), w)

RECURSIVE SortedByTimestampDesc(_)
SortedByTimestampDesc(ws) ==
    IF Len(ws) = 0 THEN <<>>
    ELSE InsertDesc(SortedByTimestampDesc(SubSeq(ws, 1, Len(ws) - 1)), ws[Len(ws)])

Truncate(ws, limit) == SubSeq(ws, 1, IF Len(ws) < limit THEN Len(ws) ELSE limit)

----------------------------------------------------------------------------
(* violations.py *)

VIOLATIONS ==
    [v \in {"RDM / VDM", "Mass RDM / Mass VDM", "NLR",
            "FailRP (NVL, GP>RP, LQRP, etc.)", "Cop Baiting", "NITRP",
            "Metagaming", "Power Gaming", "Lack of Initiation",
            "Greenzone Violations", "Mic / Chat Spam",
            "LTAP (Avoiding Punishment)", "LTARP (Avoiding RP)",
            "Lying to Staff", "Racism / Hate Speech", "Erotic Roleplay (ERP)",
            "DDoS / Dox / Exploiting / Hacking"} |->
        CASE v = "RDM / VDM" ->
                [base_points |-> 10, repeat_penalty |-> 5, grade |-> 1,
                 description |-> "Killing or running over others without proper RP."]
          [] v = "Mass RDM / Mass VDM" ->
                [base_points |-> 25, repeat_penalty |-> 10, grade |-> 2,
                 description |-> "Killing 3+ people without RP."]
          [] v = "NLR" ->
                [base_points |-> 10, repeat_penalty |-> 5, grade |-> 1,
                 description |-> "Returning to the scene after death."]
          [] v = "FailRP (NVL, GP>RP, LQRP, etc.)" ->
                [base_points |-> 10, repeat_penalty |-> 5, grade |-> 1,
                 description |-> "Breaking character or ignoring realistic RP."]
          [] v = "Cop Baiting" ->
                [base_points |-> 10, repeat_penalty |-> 5, grade |-> 1,
                 description |-> "Provoking police for no RP reason."]
          [] v = "NITRP" ->
                [base_points |-> 30, repeat_penalty |-> 10, grade |-> 3,
                 description |-> "Trolling or refusing to engage in RP."]
          [] v = "Metagaming" ->
                [base_points |-> 15, repeat_penalty |-> 5, grade |-> 1,
                 description |-> "Using OOC info for IC advantage."]
          [] v = "Power Gaming" ->
                [base_points |-> 20, repeat_penalty |-> 10, grade |-> 3,
                 description |-> "Forcing actions or outcomes unrealistically."]
          [] v = "Lack of Initiation" ->
                [base_points |-> 10, repeat_penalty |-> 5, grade |-> 1,
                 description |-> "Engaging in violence without warning."]
          [] v = "Greenzone Violations" ->
                [base_points |-> 10, repeat_penalty |-> 5, grade |-> 1,
                 description |-> "Committing crimes in safezones."]
          [] v = "Mic / Chat Spam" ->
                [base_points |-> 5, repeat_penalty |-> 2, grade |-> 1,
                 description |-> "Spamming audio or text channels."]
          [] v = "LTAP (Avoiding Punishment)" ->
                [base_points |-> 15, repeat_penalty |-> 5, grade |-> 2,
                 description |-> "Leaving the game to avoid punishment."]
          [] v = "LTARP (Avoiding RP)" ->
                [base_points |-> 20, repeat_penalty |-> 10, grade |-> 3,
                 description |-> "Leaving to avoid ongoing RP."]
          [] v = "Lying to Staff" ->
                [base_points |-> 20, repeat_penalty |-> 10, grade |-> 3,
                 description |-> "Knowingly misleading staff."]
          [] v = "Racism / Hate Speech" ->
                [base_points |-> 50, repeat_penalty |-> 25, grade |-> 3,
                 description |-> "Using slurs or hate speech."]
          [] v = "Erotic Roleplay (ERP)" ->
                [base_points |-> 50, repeat_penalty |-> 25, grade |-> 3,
                 description |-> "Sexual RP that violates server rules."]
          [] OTHER ->
                [base_points |-> 100, repeat_penalty |-> 0, grade |-> 3,
                 description |-> "DDoS attacks, doxxing, exploiting, or hacking."]]

(* the last range's upper end is float('inf'): inf marks it, max is unused *)
PUNISHMENT_THRESHOLDS ==
    << [min |-> 0,   max |-> 14, inf |-> FALSE, action |-> "Written Warning"],
       [min |-> 15,  max |-> 24, inf |-> FALSE, action |-> "3-Hour Ban"],
       [min |-> 25,  max |-> 34, inf |-> FALSE, action |-> "12-Hour Ban"],
       [min |-> 35,  max |-> 44, inf |-> FALSE, action |-> "1-Day Ban"],
       [min |-> 45,  max |-> 59, inf |-> FALSE, action |-> "3-Day Ban"],
       [min |-> 60,  max |-> 74, inf |-> FALSE, action |-> "1-Week Ban"],
       [min |-> 75,  max |-> 89, inf |-> FALSE, action |-> "2-Week Ban"],
       [min |-> 90,  max |-> 99, inf |-> FALSE, action |-> "1-Month Ban"],
       [min |-> 100, max |-> 0,  inf |-> TRUE,  action |-> "Permanent Ban"] >>

InRangeOpenLow(r, points) == r.min < points /\ (r.inf \/ points <= r.max)

InRange(r, points) == r.min <= points /\ (r.inf \/ points <= r.max)

RECURSIVE ScanThresholds(_, _)
ScanThresholds(i, points) ==
    IF i > Len(PUNISHMENT_THRESHOLDS) THEN "Written Warning"
    ELSE IF InRange(PUNISHMENT_THRESHOLDS[i], points)
         THEN PUNISHMENT_THRESHOLDS[i].action
         ELSE ScanThresholds(i + 1, points)

get_punishment_action_last_label(points) ==
    IF \E i \in 1 .. Len(PUNISHMENT_THRESHOLDS) : InRange(PUNISHMENT_THRESHOLDS[i], points)
    THEN ScanThresholds(1, points)
    ELSE PUNISHMENT_THRESHOLDS[Len(PUNISHMENT_THRESHOLDS)].action

get_punishment_action(points) == ScanThresholds(1, points)

calculate_points_scaled(violation_type, previous_violations_count) ==
    IF violation_type \notin DOMAIN VIOLATIONS THEN 0
    ELSE VIOLATIONS[violation_type].base_points
         * (1 + previous_violations_count)

calculate_points(violation_type, previous_violations_count) ==
    IF violation_type \notin DOMAIN VIOLATIONS THEN 0
    ELSE VIOLATIONS[violation_type].base_points
         + VIOLATIONS[violation_type].repeat_penalty * previous_violations_count

----------------------------------------------------------------------------
(* database.py: DatabaseManager.  Each operator takes the document that    *)
(* load_data returned and gives the document that save_data writes.        *)

EmptyDb == [users |-> EmptyDict, warnings |-> EmptyDict, bans |-> EmptyDict]

(* an exception leaving the operation that was called *)
Raised == [exception |-> TRUE]

load_data_propagating(file, readOk) == IF readOk THEN file ELSE Raised

(* readOk = FALSE: the file is missing or is not JSON; the except clause    *)
(* returns the empty document                                               *)
load_data(file, readOk) == IF readOk THEN file ELSE EmptyDb

NumericIds(data) == {ParseInt(id) : id \in {k \in DOMAIN data.warnings : IsDigit(k)}}

SetMax(S) == IF S = {} THEN 0 ELSE CHOOSE m \in S : \A x \in S : x <= m

get_next_warning_id_by_count(data) ==
    Str(Cardinality({k \in DOMAIN data.warnings :
                        ~("removed" \in DOMAIN data.warnings[k]
                          /\ data.warnings[k].removed)}) + 1)

get_next_warning_id(data) == Str(SetMax(NumericIds(data)) + 1)

GradeMap ==
    [v \in {"RDM / VDM", "Mass RDM / Mass VDM", "NLR",
            "FailRP (NVL, GP>RP, LQRP, etc.)", "Cop Baiting", "NITRP",
            "Metagaming", "Power Gaming", "Lack of Initiation",
            "Greenzone Violations", "Mic / Chat Spam",
            "LTAP (Avoiding Punishment)", "LTARP (Avoiding RP)",
            "Lying to Staff", "Racism / Hate Speech", "Erotic Roleplay (ERP)"} |->
        IF v \in {"Mass RDM / Mass VDM", "LTAP (Avoiding Punishment)"} THEN 2
        ELSE IF v \in {"NITRP", "Power Gaming", "LTARP (Avoiding RP)",
                       "Lying to Staff", "Racism / Hate Speech",
                       "Erotic Roleplay (ERP)"} THEN 3
        ELSE 1]

DaysPerWeek == 7

(* timedelta(weeks = 2 | 4 | 8) by grade; a type grade_map lacks has grade 1 *)
calculate_expiry(violation_type, t) ==
    LET grade == IF violation_type \in DOMAIN GradeMap
                 THEN GradeMap[violation_type] ELSE 1
    IN  IF grade = 1 THEN IsoFormat(t + 2 * DaysPerWeek)
        ELSE IF grade = 2 THEN IsoFormat(t + 4 * DaysPerWeek)
        ELSE IsoFormat(t + 8 * DaysPerWeek)

NewUser == [total_points |-> 0, warnings |-> <<>>, bans |-> <<>>]

NewWarning(wid, user_id, moderator_id, violation_type, points, clips, reason, t) ==
    [id |-> wid, user_id |-> user_id, moderator_id |-> moderator_id,
     violation_type |-> violation_type, points |-> points, clips |-> clips,
     reason |-> reason, timestamp |-> IsoFormat(t),
     expires_at |-> calculate_expiry(violation_type, t)]

add_warning_no_total(data, user_id, moderator_id, violation_type, points, clips, reason, t) ==
    LET key == Str(user_id)
        wid == get_next_warning_id(data)
        users1 == IF key \notin DOMAIN data.users
                  THEN DictPut(data.users, key, NewUser) ELSE data.users
        warning == NewWarning(wid, user_id, moderator_id, violation_type,
                              points, clips, reason, t)
        user2 == [total_points |-> users1[key].total_points,
                  warnings |-> Append(users1[key].warnings, wid),
                  bans |-> users1[key].bans]
    IN  [data |-> [users |-> DictPut(users1, key, user2),
                   warnings |-> DictPut(data.warnings, wid, warning),
                   bans |-> data.bans],
         result |-> warning]

add_warning(data, user_id, moderator_id, violation_type, points, clips, reason, t) ==
    LET key == Str(user_id)
        wid == get_next_warning_id(data)
        users1 == IF key \notin DOMAIN data.users
                  THEN DictPut(data.users, key, NewUser) ELSE data.users
        warning == NewWarning(wid, user_id, moderator_id, violation_type,
                              points, clips, reason, t)
        user2 == [total_points |-> users1[key].total_points + points,
                  warnings |-> Append(users1[key].warnings, wid),
                  bans |-> users1[key].bans]
    IN  [data |-> [users |-> DictPut(users1, key, user2),
                   warnings |-> DictPut(data.warnings, wid, warning),
                   bans |-> data.bans],
         result |-> warning]

(* warning.get("removed", False) *)
GetRemoved(w) == IF "removed" \in DOMAIN w THEN w.removed ELSE FALSE

(* the test both loops make: now < expires_at and not removed *)
CountsAsActive(w, t) == t < FromIsoFormat(w.expires_at) /\ ~GetRemoved(w)

RECURSIVE PointsLoop(_, _, _, _)
PointsLoop(data, ids, t, total) ==
    IF Len(ids) = 0 THEN total
    ELSE LET wid == Head(ids)
         IN  IF wid \in DOMAIN data.warnings /\ CountsAsActive(data.warnings[wid], t)
             THEN PointsLoop(data, Tail(ids), t, total + data.warnings[wid].points)
             ELSE PointsLoop(data, Tail(ids), t, total)

get_user_points_unknown_negative(data, user_id, t) ==
    IF Str(user_id) \notin DOMAIN data.users THEN -1
    ELSE PointsLoop(data, data.users[Str(user_id)].warnings, t, 0)

get_user_points_stored_total(data, user_id, t) ==
    IF Str(user_id) \notin DOMAIN data.users THEN 0
    ELSE data.users[Str(user_id)].total_points

get_user_points(data, user_id, t) ==
    IF Str(user_id) \notin DOMAIN data.users THEN 0
    ELSE PointsLoop(data, data.users[Str(user_id)].warnings, t, 0)

RECURSIVE ActiveLoop(_, _, _, _)
ActiveLoop(data, ids, t, acc) ==
    IF Len(ids) = 0 THEN acc
    ELSE LET wid == Head(ids)
         IN  IF wid \in DOMAIN data.warnings /\ CountsAsActive(data.warnings[wid], t)
             THEN ActiveLoop(data, Tail(ids), t, Append(acc, data.warnings[wid]))
             ELSE ActiveLoop(data, Tail(ids), t, acc)

RECURSIVE AllLoop(_, _, _)
AllLoop(data, ids, acc) ==
    IF Len(ids) = 0 THEN acc
    ELSE LET wid == Head(ids)
         IN  IF wid \in DOMAIN data.warnings
             THEN AllLoop(data, Tail(ids), Append(acc, data.warnings[wid]))
             ELSE AllLoop(data, Tail(ids), acc)

get_user_warnings_unfiltered(data, user_id, t) ==
    IF Str(user_id) \notin DOMAIN data.users THEN <<>>
    ELSE SortedByTimestampDesc(AllLoop(data, data.users[Str(user_id)].warnings, <<>>))

get_user_warnings_unsorted(data, user_id, t) ==
    IF Str(user_id) \notin DOMAIN data.users THEN <<>>
    ELSE ActiveLoop(data, data.users[Str(user_id)].warnings, t, <<>>)

get_user_warnings(data, user_id, t) ==
    IF Str(user_id) \notin DOMAIN data.users THEN <<>>
    ELSE SortedByTimestampDesc(ActiveLoop(data, data.users[Str(user_id)].warnings, t, <<>>))

find_warnings_by_user(data, user_id, limit) ==
    IF Str(user_id) \notin DOMAIN data.users THEN <<>>
    ELSE Truncate(SortedByTimestampDesc(
                      AllLoop(data, data.users[Str(user_id)].warnings, <<>>)), limit)

MarkRemovedKeepingExpiry(w, moderator_id, reason, t) ==
    [id |-> w.id, user_id |-> w.user_id, moderator_id |-> w.moderator_id,
     violation_type |-> w.violation_type, points |-> w.points, clips |-> w.clips,
     reason |-> w.reason, timestamp |-> w.timestamp,
     removed |-> TRUE, removed_by |-> moderator_id, removed_at |-> IsoFormat(t),
     removal_reason |-> reason, expires_at |-> w.expires_at]

(* the five assignments of a removal; removed_at and expires_at read the clock *)
MarkRemoved(w, moderator_id, reason, t) ==
    [id |-> w.id, user_id |-> w.user_id, moderator_id |-> w.moderator_id,
     violation_type |-> w.violation_type, points |-> w.points, clips |-> w.clips,
     reason |-> w.reason, timestamp |-> w.timestamp,
     removed |-> TRUE, removed_by |-> moderator_id, removed_at |-> IsoFormat(t),
     removal_reason |-> reason, expires_at |-> IsoFormat(t - 1)]

remove_warning_deleting(data, warning_id, moderator_id, reason, t) ==
    IF warning_id \in DOMAIN data.warnings
    THEN [data |-> [users |-> data.users,
                    warnings |-> DictDel(data.warnings, warning_id),
                    bans |-> data.bans],
          result |-> TRUE]
    ELSE [data |-> data, result |-> FALSE]

remove_warning_always_true(data, warning_id, moderator_id, reason, t) ==
    IF warning_id \in DOMAIN data.warnings
    THEN [data |-> [users |-> data.users,
                    warnings |-> DictPut(data.warnings, warning_id,
                                     MarkRemoved(data.warnings[warning_id],
                                                 moderator_id, reason, t)),
                    bans |-> data.bans],
          result |-> TRUE]
    ELSE [data |-> data, result |-> TRUE]

remove_warning_once(data, warning_id, moderator_id, reason, t) ==
    IF warning_id \in DOMAIN data.warnings
    THEN IF GetRemoved(data.warnings[warning_id])
         THEN [data |-> data, result |-> TRUE]
         ELSE [data |-> [users |-> data.users,
                         warnings |-> DictPut(data.warnings, warning_id,
                                          MarkRemoved(data.warnings[warning_id],
                                                      moderator_id, reason, t)),
                         bans |-> data.bans],
               result |-> TRUE]
    ELSE [data |-> data, result |-> FALSE]

remove_warning_toggling(data, warning_id, moderator_id, reason, t) ==
    IF warning_id \in DOMAIN data.warnings
    THEN LET w == data.warnings[warning_id]
             restored == NewWarning(w.id, w.user_id, w.moderator_id, w.violation_type,
                                    w.points, w.clips, w.reason, t)
         IN  [data |-> [users |-> data.users,
                        warnings |-> DictPut(data.warnings, warning_id,
                                         IF GetRemoved(w) THEN restored
                                         ELSE MarkRemoved(w, moderator_id, reason, t)),
                        bans |-> data.bans],
              result |-> TRUE]
    ELSE [data |-> data, result |-> FALSE]

remove_warning(data, warning_id, moderator_id, reason, t) ==
    IF warning_id \in DOMAIN data.warnings
    THEN [data |-> [users |-> data.users,
                    warnings |-> DictPut(data.warnings, warning_id,
                                     MarkRemoved(data.warnings[warning_id],
                                                 moderator_id, reason, t)),
                    bans |-> data.bans],
          result |-> TRUE]
    ELSE [data |-> data, result |-> FALSE]

RECURSIVE RemoveLoop(_, _, _, _, _, _)
RemoveLoop(warnings, ids, moderator_id, reason, t, count) ==
    IF Len(ids) = 0 THEN [warnings |-> warnings, count |-> count]
    ELSE LET wid == Head(ids)
         IN  IF wid \in DOMAIN warnings /\ CountsAsActive(warnings[wid], t)
             THEN RemoveLoop(DictPut(warnings, wid,
                                 MarkRemoved(warnings[wid], moderator_id, reason, t)),
                             Tail(ids), moderator_id, reason, t, count + 1)
             ELSE RemoveLoop(warnings, Tail(ids), moderator_id, reason, t, count)

remove_user_warnings_counting_all(data, user_id, moderator_id, reason, t) ==
    IF Str(user_id) \notin DOMAIN data.users
    THEN [data |-> data, result |-> 0]
    ELSE LET r == RemoveLoop(data.warnings, data.users[Str(user_id)].warnings,
                             moderator_id, reason, t, 0)
         IN  [data |-> [users |-> data.users, warnings |-> r.warnings,
                        bans |-> data.bans],
              result |-> Len(data.users[Str(user_id)].warnings)]

remove_user_warnings(data, user_id, moderator_id, reason, t) ==
    IF Str(user_id) \notin DOMAIN data.users
    THEN [data |-> data, result |-> 0]
    ELSE LET r == RemoveLoop(data.warnings, data.users[Str(user_id)].warnings,
                             moderator_id, reason, t, 0)
         IN  [data |-> [users |-> data.users, warnings |-> r.warnings,
                        bans |-> data.bans],
              result |-> r.count]

add_ban_request(data, user_id, total_points, action, message_id, t) ==
    LET ban_request == [user_id |-> user_id, total_points |-> total_points,
                        action |-> action, message_id |-> message_id,
                        timestamp |-> IsoFormat(t), status |-> "pending"]
    IN  [data |-> [users |-> data.users, warnings |-> data.warnings,
                   bans |-> DictPut(data.bans, Str(message_id), ban_request)],
         result |-> ban_request]

CompletedBan(ban, moderator_id, t, status) ==
    [user_id |-> ban.user_id, total_points |-> ban.total_points,
     action |-> ban.action, message_id |-> ban.message_id,
     timestamp |-> ban.timestamp, status |-> status,
     completed_by |-> moderator_id, completed_at |-> IsoFormat(t)]

complete_ban_request_toggling(data, message_id, moderator_id, t) ==
    LET key == Str(message_id)
    IN  IF key \in DOMAIN data.bans
        THEN LET status == IF data.bans[key].status = "completed"
                           THEN "pending" ELSE "completed"
                 ban == CompletedBan(data.bans[key], moderator_id, t, status)
             IN  [data |-> [users |-> data.users, warnings |-> data.warnings,
                            bans |-> DictPut(data.bans, key, ban)],
                  result |-> <<ban>>, saved |-> TRUE]
        ELSE [data |-> data, result |-> <<>>, saved |-> FALSE]

(* result: <<ban>> for the request returned, <<>> for None *)
complete_ban_request(data, message_id, moderator_id, t) ==
    LET key == Str(message_id)
    IN  IF key \in DOMAIN data.bans
        THEN LET ban == CompletedBan(data.bans[key], moderator_id, t, "completed")
             IN  [data |-> [users |-> data.users, warnings |-> data.warnings,
                            bans |-> DictPut(data.bans, key, ban)],
                  result |-> <<ban>>, saved |-> TRUE]
        ELSE [data |-> data, result |-> <<>>, saved |-> FALSE]

----------------------------------------------------------------------------
(* license_manager.py: LicenseManager.  saved tells whether save_data ran. *)

EmptyLic == [user_licenses |-> EmptyDict, license_users |-> EmptyDict,
             license_history |-> <<>>]

add_license_keeping_old(data, user_id, license_key, moderator_id, note, t) ==
    IF license_key \in DOMAIN data.license_users
       /\ data.license_users[license_key].user_id # user_id
    THEN [data |-> data, result |-> FALSE, saved |-> FALSE]
    ELSE LET key == Str(user_id)
             license_info == [license |-> license_key, user_id |-> user_id,
                              added_by |-> moderator_id, added_at |-> IsoFormat(t),
                              note |-> note]
             history_entry == [action |-> "add", user_id |-> user_id,
                               license |-> license_key, moderator_id |-> moderator_id,
                               timestamp |-> IsoFormat(t), note |-> note]
         IN  [data |-> [user_licenses |-> DictPut(data.user_licenses, key, license_info),
                        license_users |-> DictPut(data.license_users, license_key, license_info),
                        license_history |-> Append(data.license_history, history_entry)],
              result |-> TRUE, saved |-> TRUE]

add_license_overwrite(data, user_id, license_key, moderator_id, note, t) ==
    LET key == Str(user_id)
        license_users1 ==
            IF key \in DOMAIN data.user_licenses
               /\ data.user_licenses[key].license \in DOMAIN data.license_users
            THEN DictDel(data.license_users, data.user_licenses[key].license)
            ELSE data.license_users
        license_info == [license |-> license_key, user_id |-> user_id,
                         added_by |-> moderator_id, added_at |-> IsoFormat(t),
                         note |-> note]
        history_entry == [action |-> "add", user_id |-> user_id,
                          license |-> license_key, moderator_id |-> moderator_id,
                          timestamp |-> IsoFormat(t), note |-> note]
    IN  [data |-> [user_licenses |-> DictPut(data.user_licenses, key, license_info),
                   license_users |-> DictPut(license_users1, license_key, license_info),
                   license_history |-> Append(data.license_history, history_entry)],
         result |-> TRUE, saved |-> TRUE]

add_license_pruning_history(data, user_id, license_key, moderator_id, note, t) ==
    IF license_key \in DOMAIN data.license_users
       /\ data.license_users[license_key].user_id # user_id
    THEN [data |-> data, result |-> FALSE, saved |-> FALSE]
    ELSE LET key == Str(user_id)
             license_users1 ==
                 IF key \in DOMAIN data.user_licenses
                    /\ data.user_licenses[key].license \in DOMAIN data.license_users
                 THEN DictDel(data.license_users, data.user_licenses[key].license)
                 ELSE data.license_users
             license_info == [license |-> license_key, user_id |-> user_id,
                              added_by |-> moderator_id, added_at |-> IsoFormat(t),
                              note |-> note]
             history_entry == [action |-> "add", user_id |-> user_id,
                               license |-> license_key, moderator_id |-> moderator_id,
                               timestamp |-> IsoFormat(t), note |-> note]
             OfOthers(e) == e.user_id # user_id
         IN  [data |-> [user_licenses |-> DictPut(data.user_licenses, key, license_info),
                        license_users |-> DictPut(license_users1, license_key, license_info),
                        license_history |-> Append(SelectSeq(data.license_history, OfOthers),
                                                   history_entry)],
              result |-> TRUE, saved |-> TRUE]

add_license(data, user_id, license_key, moderator_id, note, t) ==
    IF license_key \in DOMAIN data.license_users
       /\ data.license_users[license_key].user_id # user_id
    THEN [data |-> data, result |-> FALSE, saved |-> FALSE]
    ELSE LET key == Str(user_id)
             license_users1 ==
                 IF key \in DOMAIN data.user_licenses
                    /\ data.user_licenses[key].license \in DOMAIN data.license_users
                 THEN DictDel(data.license_users, data.user_licenses[key].license)
                 ELSE data.license_users
             license_info == [license |-> license_key, user_id |-> user_id,
                              added_by |-> moderator_id, added_at |-> IsoFormat(t),
                              note |-> note]
             history_entry == [action |-> "add", user_id |-> user_id,
                               license |-> license_key, moderator_id |-> moderator_id,
                               timestamp |-> IsoFormat(t), note |-> note]
         IN  [data |-> [user_licenses |-> DictPut(data.user_licenses, key, license_info),
                        license_users |-> DictPut(license_users1, license_key, license_info),
                        license_history |-> Append(data.license_history, history_entry)],
              result |-> TRUE, saved |-> TRUE]

remove_license_user_index_only(data, user_id, moderator_id, reason, t) ==
    LET key == Str(user_id)
    IN  IF key \notin DOMAIN data.user_licenses
        THEN [data |-> data, result |-> FALSE, saved |-> FALSE]
        ELSE LET license_key == data.user_licenses[key].license
                 history_entry == [action |-> "remove", user_id |-> user_id,
                                   license |-> license_key,
                                   moderator_id |-> moderator_id,
                                   timestamp |-> IsoFormat(t), reason |-> reason]
             IN  [data |-> [user_licenses |-> DictDel(data.user_licenses, key),
                            license_users |-> data.license_users,
                            license_history |-> Append(data.license_history, history_entry)],
                  result |-> TRUE, saved |-> TRUE]

remove_license(data, user_id, moderator_id, reason, t) ==
    LET key == Str(user_id)
    IN  IF key \notin DOMAIN data.user_licenses
        THEN [data |-> data, result |-> FALSE, saved |-> FALSE]
        ELSE LET license_key == data.user_licenses[key].license
                 history_entry == [action |-> "remove", user_id |-> user_id,
                                   license |-> license_key,
                                   moderator_id |-> moderator_id,
                                   timestamp |-> IsoFormat(t), reason |-> reason]
             IN  [data |-> [user_licenses |-> DictDel(data.user_licenses, key),
                            license_users |-> DictDel(data.license_users, license_key),
                            license_history |-> Append(data.license_history, history_entry)],
                  result |-> TRUE, saved |-> TRUE]

(* LicenseManager.load_data: the same recovery for licenses.json *)
load_license_data(file, readOk) == IF readOk THEN file ELSE EmptyLic

get_user_license(data, user_id) ==
    IF Str(user_id) \in DOMAIN data.user_licenses
    THEN <<data.user_licenses[Str(user_id)]>> ELSE <<>>

get_license_user(data, license_key) ==
    IF license_key \in DOMAIN data.license_users
    THEN <<data.license_users[license_key]>> ELSE <<>>

----------------------------------------------------------------------------
(* bot.py: ViolationSelect.callback, one pass of its loop per selected type *)

CountOfType(ws, violation_type) ==
    Cardinality({i \in 1 .. Len(ws) : ws[i].violation_type = violation_type})

RECURSIVE CallbackLoop(_, _, _, _, _, _, _)
CallbackLoop(file, user_id, moderator_id, clips, selected, t, details) ==
    IF Len(selected) = 0 THEN [file |-> file, details |-> details]
    ELSE LET violation_type == Head(selected)
             user_warnings == get_user_warnings(load_data(file, TRUE), user_id, t)
             previous_violations == CountOfType(user_warnings, violation_type)
             points == calculate_points(violation_type, previous_violations)
             added == add_warning(load_data(file, TRUE), user_id, moderator_id,
                                  violation_type, points, clips,
                                  VIOLATIONS[violation_type].description, t)
         IN  CallbackLoop(added.data, user_id, moderator_id, clips, Tail(selected), t,
                          Append(details, [type |-> violation_type, points |-> points,
                                           warning |-> added.result]))

(* the values of the select menu: distinct catalog types, at least one *)
Selections(types, maxLen) ==
    {s \in UNION {[1 .. n -> types] : n \in 1 .. maxLen} :
        \A i, j \in 1 .. Len(s) : i # j => s[i] # s[j]}

DetailIds(details) == [i \in 1 .. Len(details) |-> details[i].warning.id]

----------------------------------------------------------------------------
(* the calls that may run at the same time: the coroutines of two           *)
(* interactions; a call is suspended at its awaits of load_data and of      *)
(* save_data and runs without interruption between them                     *)
Calls == {1, 2}

Idle == [pc |-> "idle"]

(* The handlers as actions *)

Init ==
    /\ now = 1
    /\ db = EmptyDb
    /\ lic = EmptyLic
    /\ nextMsg = 1
    /\ assigned = <<>>
    /\ ret = [op |-> "none"]
    /\ inflight = [p \in Calls |-> Idle]

(* time passes *)
Tick(days, maxClock) ==
    /\ now + days <= maxClock
    /\ now' = now + days
    /\ UNCHANGED <<db, lic, nextMsg, assigned, ret, inflight>>

(* ViolationSelect.callback with create_ban_request; banChannel: whether the *)
(* guild has the configured ban-request channel                              *)
(* maxWarnings: the number of warnings the ledger may come to hold            *)
CallbackWithin(maxWarnings, user_id, moderator_id, clips, selected, banChannel) ==
    /\ Cardinality(DOMAIN db.warnings) + Len(selected) <= maxWarnings
    /\ LET loop == CallbackLoop(db, user_id, moderator_id, clips, selected, now, <<>>)
           total_points == get_user_points(load_data(loop.file, TRUE), user_id, now)
           action == get_punishment_action(total_points)
           banned == total_points >= 15 /\ banChannel
       IN  /\ db' = IF banned
                    THEN add_ban_request(load_data(loop.file, TRUE), user_id,
                                         total_points, action, nextMsg, now).data
                    ELSE loop.file
           /\ nextMsg' = IF banned THEN nextMsg + 1 ELSE nextMsg
           /\ assigned' = assigned \o DetailIds(loop.details)
           /\ ret' = [op |-> "callback", user_id |-> user_id,
                      moderator_id |-> moderator_id, selected |-> selected,
                      details |-> loop.details, total_points |-> total_points,
                      action |-> action, ban_channel |-> banChannel,
                      ban_request |-> banned]
    /\ UNCHANGED <<now, lic, inflight>>

Callback(user_id, moderator_id, clips, selected, banChannel) ==
    CallbackWithin(MaxWarnings, user_id, moderator_id, clips, selected, banChannel)

(* found: the warning as the call loaded it, <<>> when the id is not stored *)
RemoveWarning(warning_id, moderator_id, reason) ==
    /\ LET data == load_data(db, TRUE)
           r == remove_warning(data, warning_id, moderator_id, reason, now)
       IN  /\ db' = r.data
           /\ ret' = [op |-> "remove_warning", warning_id |-> warning_id,
                      moderator_id |-> moderator_id, reason |-> reason,
                      found |-> IF warning_id \in DOMAIN data.warnings
                                THEN <<data.warnings[warning_id]>> ELSE <<>>,
                      result |-> r.result]
    /\ UNCHANGED <<now, lic, nextMsg, assigned, inflight>>

RemoveUserWarnings(user_id, moderator_id, reason) ==
    /\ LET r == remove_user_warnings(load_data(db, TRUE), user_id, moderator_id, reason, now)
       IN  /\ db' = r.data
           /\ ret' = [op |-> "remove_user_warnings", user_id |-> user_id,
                      moderator_id |-> moderator_id, reason |-> reason,
                      result |-> r.result]
    /\ UNCHANGED <<now, lic, nextMsg, assigned, inflight>>

AddLicense(user_id, license_key, moderator_id, note) ==
    /\ Len(lic.license_history) < MaxLicenseOps
    /\ LET r == add_license(lic, user_id, license_key, moderator_id, note, now)
       IN  /\ lic' = IF r.saved THEN r.data ELSE lic
           /\ ret' = [op |-> "add_license", user_id |-> user_id,
                      license |-> license_key, moderator_id |-> moderator_id,
                      result |-> r.result]
    /\ UNCHANGED <<now, db, nextMsg, assigned, inflight>>

RemoveLicense(user_id, moderator_id, reason) ==
    /\ Len(lic.license_history) < MaxLicenseOps
    /\ LET r == remove_license(lic, user_id, moderator_id, reason, now)
       IN  /\ lic' = IF r.saved THEN r.data ELSE lic
           /\ ret' = [op |-> "remove_license", user_id |-> user_id,
                      moderator_id |-> moderator_id, result |-> r.result]
    /\ UNCHANGED <<now, db, nextMsg, assigned, inflight>>

CallCalculatePoints(violation_type, count) ==
    /\ ret' = [op |-> "calculate_points", violation_type |-> violation_type,
               count |-> count, result |-> calculate_points(violation_type, count)]
    /\ UNCHANGED <<now, db, lic, nextMsg, assigned, inflight>>

CallGetPunishmentAction(points) ==
    /\ ret' = [op |-> "get_punishment_action", points |-> points,
               result |-> get_punishment_action(points)]
    /\ UNCHANGED <<now, db, lic, nextMsg, assigned, inflight>>

(* The reading handlers and the removals, on a file that may be unreadable: *)
(* readOk = FALSE when open() or json.loads() fails inside load_data        *)

GetUserPoints(user_id, readOk) ==
    /\ LET data == load_data(db, readOk)
       IN  ret' = [op |-> "get_user_points", user_id |-> user_id, readOk |-> readOk,
                   raised |-> data = Raised,
                   result |-> IF data = Raised THEN Raised
                              ELSE get_user_points(data, user_id, now)]
    /\ UNCHANGED <<now, db, lic, nextMsg, assigned, inflight>>

GetUserWarnings(user_id, readOk) ==
    /\ LET data == load_data(db, readOk)
       IN  ret' = [op |-> "get_user_warnings", user_id |-> user_id, readOk |-> readOk,
                   raised |-> data = Raised,
                   result |-> IF data = Raised THEN Raised
                              ELSE get_user_warnings(data, user_id, now)]
    /\ UNCHANGED <<now, db, lic, nextMsg, assigned, inflight>>

FindWarningsByUser(user_id, limit, readOk) ==
    /\ LET data == load_data(db, readOk)
       IN  ret' = [op |-> "find_warnings_by_user", user_id |-> user_id,
                   readOk |-> readOk, raised |-> data = Raised,
                   result |-> IF data = Raised THEN Raised
                              ELSE find_warnings_by_user(data, user_id, limit)]
    /\ UNCHANGED <<now, db, lic, nextMsg, assigned, inflight>>

(* remove_warning saves only on the branch that returns True *)
TryRemoveWarning(warning_id, moderator_id, reason, readOk) ==
    /\ LET data == load_data(db, readOk)
           r == IF data = Raised THEN [data |-> db, result |-> FALSE]
                ELSE remove_warning(data, warning_id, moderator_id, reason, now)
       IN  /\ db' = IF r.result THEN r.data ELSE db
           /\ ret' = [op |-> "remove_warning", warning_id |-> warning_id,
                      moderator_id |-> moderator_id, reason |-> reason,
                      readOk |-> readOk, raised |-> data = Raised,
                      result |-> IF data = Raised THEN Raised ELSE r.result]
    /\ UNCHANGED <<now, lic, nextMsg, assigned, inflight>>

TryRemoveLicense(user_id, moderator_id, reason, readOk) ==
    /\ Len(lic.license_history) < MaxLicenseOps
    /\ LET data == load_license_data(lic, readOk)
           r == IF data = Raised THEN [data |-> lic, result |-> FALSE, saved |-> FALSE]
                ELSE remove_license(data, user_id, moderator_id, reason, now)
       IN  /\ lic' = IF r.saved THEN r.data ELSE lic
           /\ ret' = [op |-> "remove_license", user_id |-> user_id,
                      moderator_id |-> moderator_id, readOk |-> readOk,
                      raised |-> data = Raised,
                      result |-> IF data = Raised THEN Raised ELSE r.result]
    /\ UNCHANGED <<now, db, nextMsg, assigned, inflight>>

GetUserLicense(user_id, readOk) ==
    /\ LET data == load_license_data(lic, readOk)
       IN  ret' = [op |-> "get_user_license", user_id |-> user_id, readOk |-> readOk,
                   raised |-> data = Raised,
                   result |-> IF data = Raised THEN Raised
                              ELSE get_user_license(data, user_id)]
    /\ UNCHANGED <<now, db, lic, nextMsg, assigned, inflight>>

GetLicenseUser(license_key, readOk) ==
    /\ LET data == load_license_data(lic, readOk)
       IN  ret' = [op |-> "get_license_user", license |-> license_key,
                   readOk |-> readOk, raised |-> data = Raised,
                   result |-> IF data = Raised THEN Raised
                              ELSE get_license_user(data, license_key)]
    /\ UNCHANGED <<now, db, lic, nextMsg, assigned, inflight>>

(* DatabaseManager.add_ban_request called with any message id *)
AddBanRequest(user_id, total_points, message_id) ==
    /\ LET r == add_ban_request(load_data(db, TRUE), user_id, total_points,
                                get_punishment_action(total_points), message_id, now)
       IN  /\ db' = r.data
           /\ ret' = [op |-> "add_ban_request", user_id |-> user_id,
                      message_id |-> message_id, result |-> r.result]
    /\ UNCHANGED <<now, lic, nextMsg, assigned, inflight>>

(* BanRequestView.complete_ban, pressed by a moderator on message_id *)
CompleteBan(message_id, moderator_id) ==
    /\ LET r == complete_ban_request(load_data(db, TRUE), message_id, moderator_id, now)
       IN  /\ db' = IF r.saved THEN r.data ELSE db
           /\ ret' = [op |-> "complete_ban_request", message_id |-> message_id,
                      moderator_id |-> moderator_id, result |-> r.result]
    /\ UNCHANGED <<now, lic, nextMsg, assigned, inflight>>

(* DatabaseManager.add_warning as the event loop runs it.  The call is      *)
(* suspended inside load_data; when the read returns it takes the next id,  *)
(* builds the warning and changes its own copy of the document, and is      *)
(* suspended again inside save_data; then it writes that copy over the file *)
(* and returns the warning.  seen: how many of the calls had saved when     *)
(* this one read the file.                                                  *)
Saved == {q \in Calls : inflight[q].pc = "done"}

AddWarningLoad(p, user_id, moderator_id, violation_type, points, clips, reason) ==
    /\ inflight[p].pc = "idle"
    /\ LET data == load_data(db, TRUE)
           added == add_warning(data, user_id, moderator_id, violation_type,
                                points, clips, reason, now)
       IN  inflight' = [inflight EXCEPT ![p] =
                           [pc |-> "loaded", user_id |-> user_id, data |-> data,
                            seen |-> Cardinality(Saved),
                            moderator_id |-> moderator_id,
                            violation_type |-> violation_type, points |-> points,
                            clips |-> clips, reason |-> reason, issued |-> now,
                            added |-> added.data, result |-> added.result]]
    /\ UNCHANGED <<now, db, lic, nextMsg, assigned, ret>>

(* a save that reads the file again and adds the warning to what it finds *)
AddWarningSaveReloading(p) ==
    /\ inflight[p].pc = "loaded"
    /\ LET c == inflight[p]
           added == add_warning(load_data(db, TRUE), c.user_id, c.moderator_id,
                                c.violation_type, c.points, c.clips, c.reason,
                                c.issued)
       IN  /\ db' = added.data
           /\ inflight' = [inflight EXCEPT ![p] =
                              [pc |-> "done", user_id |-> c.user_id, data |-> c.data,
                               seen |-> c.seen, order |-> Cardinality(Saved) + 1,
                               added |-> added.data, result |-> added.result]]
           /\ assigned' = Append(assigned, added.result.id)
           /\ ret' = [op |-> "add_warning", call |-> p, result |-> added.result]
    /\ UNCHANGED <<now, lic, nextMsg>>

AddWarningSave(p) ==
    /\ inflight[p].pc = "loaded"
    /\ LET c == inflight[p]
       IN  /\ db' = c.added
           /\ inflight' = [inflight EXCEPT ![p] =
                              [pc |-> "done", user_id |-> c.user_id, data |-> c.data,
                               seen |-> c.seen, order |-> Cardinality(Saved) + 1,
                               added |-> c.added, result |-> c.result]]
           /\ assigned' = Append(assigned, c.result.id)
           /\ ret' = [op |-> "add_warning", call |-> p, result |-> c.result]
    /\ UNCHANGED <<now, lic, nextMsg>>

(* DatabaseManager.add_warning run as one step, its read of the file        *)
(* succeeding or failing                                                    *)
AddWarning(user_id, moderator_id, violation_type, points, clips, reason, readOk) ==
    /\ LET data == load_data(db, readOk)
       IN  IF data = Raised
           THEN /\ ret' = [op |-> "add_warning", user_id |-> user_id,
                           readOk |-> readOk, raised |-> TRUE, result |-> Raised]
                /\ UNCHANGED <<db, assigned>>
           ELSE LET added == add_warning(data, user_id, moderator_id, violation_type,
                                         points, clips, reason, now)
                IN  /\ db' = added.data
                    /\ assigned' = Append(assigned, added.result.id)
                    /\ ret' = [op |-> "add_warning", user_id |-> user_id,
                               readOk |-> readOk, raised |-> FALSE,
                               result |-> added.result]
    /\ UNCHANGED <<now, lic, nextMsg, inflight>>

(* LicenseManager.add_license and remove_license as the event loop runs     *)
(* them: the read of licenses.json, then the change of the call's own copy; *)
(* later, on the branches that save, the write of that copy over the file   *)
(* and the return.  A call that returns False writes nothing.               *)
LicenseLoad(p, kind, user_id, license_key, moderator_id, note) ==
    /\ inflight[p].pc # "loaded"
    /\ Len(lic.license_history) < MaxRacingOps
    /\ LET data == load_license_data(lic, TRUE)
           out == IF kind = "add_license"
                  THEN add_license(data, user_id, license_key, moderator_id, note, now)
                  ELSE remove_license(data, user_id, moderator_id, note, now)
       IN  inflight' = [inflight EXCEPT ![p] =
                           [pc |-> "loaded", kind |-> kind, user_id |-> user_id,
                            license |-> license_key, loaded |-> data,
                            copy |-> out.data, saved |-> out.saved,
                            result |-> out.result]]
    /\ UNCHANGED <<now, db, lic, nextMsg, assigned, ret>>

(* a save that writes the call's own two entries into the file as it is now *)
LicenseSaveMerging(p) ==
    /\ inflight[p].pc = "loaded"
    /\ LET c == inflight[p]
           key == Str(c.user_id)
           merged ==
               IF c.kind = "add_license"
               THEN [user_licenses |-> DictPut(lic.user_licenses, key,
                                               c.copy.user_licenses[key]),
                     license_users |-> DictPut(lic.license_users, c.license,
                                               c.copy.license_users[c.license]),
                     license_history |-> Append(lic.license_history,
                                                c.copy.license_history[
                                                    Len(c.copy.license_history)])]
               ELSE [user_licenses |-> DictDel(lic.user_licenses, key),
                     license_users |-> lic.license_users,
                     license_history |-> Append(lic.license_history,
                                                c.copy.license_history[
                                                    Len(c.copy.license_history)])]
       IN  /\ lic' = IF c.saved THEN merged ELSE lic
           /\ inflight' = [inflight EXCEPT ![p].pc = "done"]
           /\ ret' = [op |-> c.kind, call |-> p, user_id |-> c.user_id,
                      license |-> c.license, result |-> c.result]
    /\ UNCHANGED <<now, db, nextMsg, assigned>>

LicenseSave(p) ==
    /\ inflight[p].pc = "loaded"
    /\ LET c == inflight[p]
       IN  /\ lic' = IF c.saved THEN c.copy ELSE lic
           /\ inflight' = [inflight EXCEPT ![p].pc = "done"]
           /\ ret' = [op |-> c.kind, call |-> p, user_id |-> c.user_id,
                      license |-> c.license, result |-> c.result]
    /\ UNCHANGED <<now, db, nextMsg, assigned>>

----------------------------------------------------------------------------
(* Inputs *)

UserIds == {1, 2}

Moderators == {7}

IssueTypes == {"RDM / VDM", "Mass RDM / Mass VDM"}

SelectInputs == Selections(IssueTypes, 2)

ClipInputs == {<<"https://clips.example/1">>}

ReasonInputs == {"No reason provided"}

WarningIdInputs == {Str(n) : n \in 1 .. MaxWarnings + 1}

LicenseKeys == {"0a", "1b", "2c"}

TypeInputs == DOMAIN VIOLATIONS \cup {"Unknown"}

----------------------------------------------------------------------------
(* Spec: the warning ledger, its handlers run one after another *)

Next ==
    \/ \E u \in UserIds, m \in Moderators, c \in ClipInputs,
          s \in SelectInputs, ch \in BOOLEAN :
          Callback(u, m, c, s, ch)
    \/ \E w \in WarningIdInputs, m \in Moderators, r \in ReasonInputs :
          RemoveWarning(w, m, r)
    \/ \E u \in UserIds, m \in Moderators, r \in ReasonInputs :
          RemoveUserWarnings(u, m, r)
    \/ Tick(2 * DaysPerWeek, MaxClock)

Spec == Init /\ [][Next]_vars

(* SpecLicense: the license ledger, its handlers run one after another *)
NextLicense ==
    \/ \E u \in UserIds, k \in LicenseKeys, m \in Moderators :
          AddLicense(u, k, m, "")
    \/ \E u \in UserIds, m \in Moderators : RemoveLicense(u, m, "Manual removal")
    \/ Tick(1, 2)

SpecLicense == Init /\ [][NextLicense]_vars

(* SpecExpiry: one warning of any catalog type, and the clock *)
NextExpiry ==
    \/ \E v \in DOMAIN VIOLATIONS, c \in ClipInputs, ch \in BOOLEAN :
          /\ DOMAIN db.warnings = {}
          /\ Callback(1, 7, c, <<v>>, ch)
    \/ Tick(1, MaxClockExpiry)

SpecExpiry == Init /\ [][NextExpiry]_vars

(* SpecCatalog: the two pure functions of violations.py on bounded inputs *)
NextCatalog ==
    \/ \E v \in TypeInputs, n \in 0 .. MaxPrior : CallCalculatePoints(v, n)
    \/ \E p \in (0 - MaxBelowZero) .. MaxPoints : CallGetPunishmentAction(p)

SpecCatalog == Init /\ [][NextCatalog]_vars

(* SpecRemoveAll: one user's warnings of one type, issued, removed one by   *)
(* one or all at once, and expiring                                         *)
NextRemoveAll ==
    \/ \E c \in ClipInputs :
          CallbackWithin(MaxLedger, 1, 7, c, <<"RDM / VDM">>, FALSE)
    \/ \E w \in {Str(n) : n \in 1 .. MaxLedger}, r \in ReasonInputs :
          RemoveWarning(w, 7, r)
    \/ \E r \in ReasonInputs : RemoveUserWarnings(1, 7, r)
    \/ Tick(2 * DaysPerWeek, MaxClock)

SpecRemoveAll == Init /\ [][NextRemoveAll]_vars

(* SpecRecovery: the reading handlers and the removals on stores that hold  *)
(* a user's warnings and license, each read succeeding or failing           *)
NextRecovery ==
    \/ \E c \in ClipInputs :
          CallbackWithin(MaxWarnings, 1, 7, c, <<"RDM / VDM">>, FALSE)
    \/ AddLicense(1, "0a", 7, "")
    \/ \E u \in UserIds, ok \in BOOLEAN : GetUserPoints(u, ok)
    \/ \E u \in UserIds, ok \in BOOLEAN : GetUserWarnings(u, ok)
    \/ \E u \in UserIds, ok \in BOOLEAN : FindWarningsByUser(u, 100, ok)
    \/ \E w \in WarningIdInputs, r \in ReasonInputs, ok \in BOOLEAN :
          TryRemoveWarning(w, 7, r, ok)
    \/ \E u \in UserIds, ok \in BOOLEAN :
          TryRemoveLicense(u, 7, "Manual removal", ok)
    \/ \E u \in UserIds, ok \in BOOLEAN : GetUserLicense(u, ok)
    \/ \E k \in LicenseKeys, ok \in BOOLEAN : GetLicenseUser(k, ok)

SpecRecovery == Init /\ [][NextRecovery]_vars

(* SpecBans: the ban requests of the ledger, created and completed under    *)
(* message ids 1 .. MaxMessages; completion is also tried on an unknown id  *)
NextBans ==
    \/ \E k \in 1 .. MaxMessages : AddBanRequest(1, 15, k)
    \/ \E k \in 1 .. MaxMessages + 1, m \in Moderators : CompleteBan(k, m)
    \/ Tick(1, 3)

SpecBans == Init /\ [][NextBans]_vars

(* SpecThreshold: one user given warnings of the types whose points put the *)
(* total below, at and above the lowest ban threshold: 5, 12, 15, 20, 35    *)
ThresholdTypes == {"Mic / Chat Spam", "Metagaming"}

NextThreshold ==
    \/ \E c \in ClipInputs, s \in Selections(ThresholdTypes, 2), ch \in BOOLEAN :
          Callback(1, 7, c, s, ch)
    \/ \E w \in WarningIdInputs, r \in ReasonInputs : RemoveWarning(w, 7, r)
    \/ Tick(2 * DaysPerWeek, MaxClock)

SpecThreshold == Init /\ [][NextThreshold]_vars

(* SpecConcurrent: warnings issued one after another, then two add_warning  *)
(* calls whose loads and saves interleave in every order                    *)
NextConcurrent ==
    \/ \E u \in UserIds, c \in ClipInputs, v \in IssueTypes :
          /\ \A p \in Calls : inflight[p].pc = "idle"
          /\ Callback(u, 7, c, <<v>>, FALSE)
    \/ \E p \in Calls, u \in UserIds, m \in Moderators, c \in ClipInputs,
          v \in IssueTypes :
          AddWarningLoad(p, u, m, v, calculate_points(v, 0), c,
                         VIOLATIONS[v].description)
    \/ \E p \in Calls : AddWarningSave(p)
    \/ Tick(1, 2)

SpecConcurrent == Init /\ [][NextConcurrent]_vars

(* SpecReRemove: one user's warnings removed, and removed again, by one of  *)
(* two moderators, each with a reason of its own, on the same or the next   *)
(* day                                                                      *)
Removers == {<<7, "No reason provided">>, <<8, "Appeal accepted">>}

NextReRemove ==
    \/ \E c \in ClipInputs : Callback(1, 7, c, <<"RDM / VDM">>, FALSE)
    \/ \E w \in WarningIdInputs, mr \in Removers : RemoveWarning(w, mr[1], mr[2])
    \/ Tick(1, 2)

SpecReRemove == Init /\ [][NextReRemove]_vars

(* SpecOrder: one user's warnings issued a week apart, some removed, the    *)
(* oldest expiring, and the two reading operations on them                  *)
NextOrder ==
    \/ \E c \in ClipInputs :
          CallbackWithin(MaxOrdered, 1, 7, c, <<"RDM / VDM">>, FALSE)
    \/ \E w \in {Str(n) : n \in 1 .. MaxOrdered}, r \in ReasonInputs :
          RemoveWarning(w, 7, r)
    \/ \E u \in UserIds : GetUserWarnings(u, TRUE)
    \/ \E u \in UserIds : GetUserPoints(u, TRUE)
    \/ Tick(DaysPerWeek, MaxClock)

SpecOrder == Init /\ [][NextOrder]_vars

(* SpecFrame: every handler that touches the warning store, on one user:    *)
(* issuing with ban requests, both removals, the three readers, completing  *)
(* a ban request, and time                                                  *)
NextFrame ==
    \/ \E c \in ClipInputs, s \in SelectInputs : Callback(1, 7, c, s, TRUE)
    \/ \E w \in WarningIdInputs, r \in ReasonInputs : RemoveWarning(w, 7, r)
    \/ \E r \in ReasonInputs : RemoveUserWarnings(1, 7, r)
    \/ GetUserPoints(1, TRUE)
    \/ GetUserWarnings(1, TRUE)
    \/ FindWarningsByUser(1, 100, TRUE)
    \/ \E k \in 1 .. MaxMessages : CompleteBan(k, 7)
    \/ Tick(2 * DaysPerWeek, MaxClock)

SpecFrame == Init /\ [][NextFrame]_vars

(* SpecDataLoss: warnings and ban requests stored by the callback, then     *)
(* add_warning calls whose read of the file may fail                        *)
NextDataLoss ==
    \/ \E u \in UserIds, c \in ClipInputs, v \in IssueTypes :
          /\ Len(assigned) < MaxIssued
          /\ Callback(u, 7, c, <<v>>, TRUE)
    \/ \E u \in UserIds, c \in ClipInputs, v \in IssueTypes, ok \in BOOLEAN :
          /\ Len(assigned) < MaxIssued
          /\ AddWarning(u, 7, v, calculate_points(v, 0), c,
                        VIOLATIONS[v].description, ok)
    \/ Tick(1, 2)

SpecDataLoss == Init /\ [][NextDataLoss]_vars

(* SpecLicenseRace: add_license and remove_license calls whose loads and    *)
(* saves interleave in every order                                          *)
RacingKeys == {"0a", "1b"}

NextLicenseRace ==
    \/ \E p \in Calls, u \in UserIds, k \in RacingKeys, m \in Moderators :
          LicenseLoad(p, "add_license", u, k, m, "")
    \/ \E p \in Calls, u \in UserIds, m \in Moderators :
          LicenseLoad(p, "remove_license", u, "", m, "Manual removal")
    \/ \E p \in Calls : LicenseSave(p)

SpecLicenseRace == Init /\ [][NextLicenseRace]_vars

----------------------------------------------------------------------------
(* What the specification calls an active warning, and sums over warnings *)

IsActiveAt(w, t) ==
    /\ t < FromIsoFormat(w.expires_at)
    /\ ("removed" \notin DOMAIN w \/ w.removed = FALSE)

UserWarningIds(data, user_id) ==
    IF Str(user_id) \in DOMAIN data.users
    THEN {data.users[Str(user_id)].warnings[i] :
              i \in 1 .. Len(data.users[Str(user_id)].warnings)}
    ELSE {}

RECURSIVE SumPoints(_, _)
SumPoints(data, ids) ==
    IF ids = {} THEN 0
    ELSE LET id == CHOOSE x \in ids : TRUE
         IN  data.warnings[id].points + SumPoints(data, ids \ {id})

ActiveIds(data, user_id, t) ==
    {id \in UserWarningIds(data, user_id) \cap DOMAIN data.warnings :
        IsActiveAt(data.warnings[id], t)}

----------------------------------------------------------------------------
(* C1: every id add_warning assigns is a decimal string whose value is      *)
(* greater than that of every id assigned before it, whatever removals came *)
(* in between; no id is assigned twice.                                     *)
C1_IdsStrictlyIncreasing ==
    \A i \in 1 .. Len(assigned) :
        /\ IsDigit(assigned[i])
        /\ \A j \in 1 .. i - 1 : ParseInt(assigned[j]) < ParseInt(assigned[i])

(* an id assigned after an earlier warning was removed *)
C1_Witness ==
    /\ Len(assigned) >= 2
    /\ assigned[1] \in DOMAIN db.warnings
    /\ assigned[2] \in DOMAIN db.warnings
    /\ GetRemoved(db.warnings[assigned[1]])
    /\ FromIsoFormat(db.warnings[assigned[1]].removed_at)
           < FromIsoFormat(db.warnings[assigned[2]].timestamp)

(* C2: after any sequence of add_license and remove_license calls from the  *)
(* empty store, user_licenses and license_users are inverses of each other: *)
(* user u has key k in one exactly when key k has user u in the other.      *)
C2_IndexesAreInverse ==
    /\ \A uk \in DOMAIN lic.user_licenses :
          LET k == lic.user_licenses[uk].license
          IN  /\ k \in DOMAIN lic.license_users
              /\ Str(lic.license_users[k].user_id) = uk
    /\ \A k \in DOMAIN lic.license_users :
          LET uk == Str(lic.license_users[k].user_id)
          IN  /\ uk \in DOMAIN lic.user_licenses
              /\ lic.user_licenses[uk].license = k

(* two users hold keys and one of them has had its key replaced *)
C2_Witness ==
    /\ Cardinality(DOMAIN lic.user_licenses) = 2
    /\ \E i, j \in 1 .. Len(lic.license_history) :
          /\ i < j
          /\ lic.license_history[i].action = "add"
          /\ lic.license_history[j].action = "add"
          /\ lic.license_history[i].user_id = lic.license_history[j].user_id
          /\ lic.license_history[i].license # lic.license_history[j].license

(* C3: add_license(u2, k) while k belongs to another user u1 returns False  *)
(* and leaves the whole license document as it was.                         *)
C3_ConflictRejected ==
    [][ \A u \in UserIds, k \in LicenseKeys :
          ( /\ k \in DOMAIN lic.license_users
            /\ lic.license_users[k].user_id # u
            /\ now' = now
            /\ ret'.op = "add_license"
            /\ ret'.user_id = u
            /\ ret'.license = k )
          => (ret'.result = FALSE /\ lic' = lic) ]_vars

(* a rejected add_license by a user that holds a key of its own *)
C3_Witness ==
    /\ ret.op = "add_license"
    /\ ret.result = FALSE
    /\ ret.license \in DOMAIN lic.license_users
    /\ lic.license_users[ret.license].user_id # ret.user_id
    /\ Str(ret.user_id) \in DOMAIN lic.user_licenses

(* C4: when u1 holds k and add_license(u1, k2) with k2 # k succeeds, k is   *)
(* gone from license_users (get_license_user(k) is None and another user    *)
(* can be given k) and the two indexes map u1 and k2 to each other.         *)
C4_RelicenseFreesOldKey ==
    [][ \A u \in UserIds, k \in LicenseKeys, k2 \in LicenseKeys :
          ( /\ Str(u) \in DOMAIN lic.user_licenses
            /\ lic.user_licenses[Str(u)].license = k
            /\ k2 # k
            /\ now' = now
            /\ ret'.op = "add_license"
            /\ ret'.user_id = u
            /\ ret'.license = k2
            /\ ret'.result = TRUE )
          => /\ k \notin DOMAIN lic'.license_users
             /\ get_license_user(lic', k) = <<>>
             /\ \A v \in UserIds \ {u}, m \in Moderators :
                   add_license(lic', v, k, m, "", now').result = TRUE
             /\ Str(u) \in DOMAIN lic'.user_licenses
             /\ lic'.user_licenses[Str(u)].license = k2
             /\ k2 \in DOMAIN lic'.license_users
             /\ lic'.license_users[k2].user_id = u ]_vars

(* the last two history entries are adds of different keys to one user *)
C4_Witness ==
    /\ ret.op = "add_license"
    /\ ret.result = TRUE
    /\ Len(lic.license_history) >= 2
    /\ LET n == Len(lic.license_history)
       IN  /\ lic.license_history[n].action = "add"
           /\ lic.license_history[n - 1].action = "add"
           /\ lic.license_history[n].user_id = lic.license_history[n - 1].user_id
           /\ lic.license_history[n].license # lic.license_history[n - 1].license
           /\ lic.license_history[n - 1].license \notin DOMAIN lic.license_users

(* the limits a caller may pass to find_warnings_by_user; 100 is its default *)
LimitInputs == (1 .. MaxWarnings) \cup {100}

FoundWithRemoved(data, user_id, limit, id) ==
    LET found == find_warnings_by_user(data, user_id, limit)
    IN  \E i \in 1 .. Len(found) : found[i].id = id /\ GetRemoved(found[i])

RemovedOther(data, id, t) ==
    LET U == data.warnings[id].user_id
    IN  get_user_points(data, U, t) = SumPoints(data, ActiveIds(data, U, t) \ {id})

(* C5 as stated: after remove_warning(id) succeeds on a warning of user U,  *)
(* get_user_points(U) is the sum of U's other active warnings and           *)
(* find_warnings_by_user(U, limit) returns the warning with removed = true, *)
(* whatever the limit.                                                      *)
C5_Original ==
    (ret.op = "remove_warning" /\ ret.result = TRUE) =>
        /\ ret.warning_id \in DOMAIN db.warnings
        /\ RemovedOther(db, ret.warning_id, now)
        /\ \A limit \in LimitInputs :
              FoundWithRemoved(db, db.warnings[ret.warning_id].user_id, limit,
                               ret.warning_id)

(* C5: after remove_warning(id) succeeds on a warning of user U,            *)
(* get_user_points(U) is the sum of the points of U's other active warnings *)
(* and find_warnings_by_user(U, limit) returns the warning with             *)
(* removed = true for every limit that is at least the number of U's        *)
(* warnings.                                                                *)
C5_RemovedExcludedButListed ==
    (ret.op = "remove_warning" /\ ret.result = TRUE) =>
        /\ ret.warning_id \in DOMAIN db.warnings
        /\ RemovedOther(db, ret.warning_id, now)
        /\ \A limit \in LimitInputs :
              LET U == db.warnings[ret.warning_id].user_id
              IN  Len(db.users[Str(U)].warnings) <= limit
                  => FoundWithRemoved(db, U, limit, ret.warning_id)

(* a removal that left its user another active warning *)
C5_Witness ==
    /\ ret.op = "remove_warning"
    /\ ret.result = TRUE
    /\ LET U == db.warnings[ret.warning_id].user_id
       IN  /\ Len(db.users[Str(U)].warnings) >= 2
           /\ get_user_points(db, U, now) > 0
           /\ FromIsoFormat(db.warnings[ret.warning_id].removed_at) = now

(* whether get_user_points counts warning id: its result with and without it *)
Counted(data, id, t) ==
    LET U == data.warnings[id].user_id
    IN  get_user_points(data, U, t)
        # get_user_points([users |-> data.users,
                           warnings |-> DictDel(data.warnings, id),
                           bans |-> data.bans], U, t)

ExpiryWindow(grade) ==
    IF grade = 1 THEN 2 * DaysPerWeek
    ELSE IF grade = 2 THEN 4 * DaysPerWeek
    ELSE 8 * DaysPerWeek

(* C6: an unremoved warning of a catalog type, issued at time t, counts     *)
(* toward its user's active points exactly while now < t + W, W being 2, 4  *)
(* or 8 weeks for the catalog's grade 1, 2 or 3 of that type.               *)
C6_ExpiryFollowsCatalogGrade ==
    \A id \in DOMAIN db.warnings :
        LET w == db.warnings[id]
        IN  (w.violation_type \in DOMAIN VIOLATIONS /\ ~GetRemoved(w)) =>
                (Counted(db, id, now)
                    <=> now < FromIsoFormat(w.timestamp)
                              + ExpiryWindow(VIOLATIONS[w.violation_type].grade))

(* C7: calculate_points(v, n) is base_points(v) + repeat_penalty(v) * n for *)
(* a catalog type v and 0 for any other v.                                  *)
C7_CalculatePoints ==
    ret.op = "calculate_points" =>
        IF ret.violation_type \in DOMAIN VIOLATIONS
        THEN ret.result = VIOLATIONS[ret.violation_type].base_points
                          + VIOLATIONS[ret.violation_type].repeat_penalty * ret.count
        ELSE ret.result = 0

(* a repeat offence of a catalog type *)
C7_Witness ==
    /\ ret.op = "calculate_points"
    /\ ret.violation_type = "RDM / VDM"
    /\ ret.count = 3
    /\ ret.result = 25

Labels == {PUNISHMENT_THRESHOLDS[i].action : i \in 1 .. Len(PUNISHMENT_THRESHOLDS)}

Severity(label) ==
    CHOOSE i \in 1 .. Len(PUNISHMENT_THRESHOLDS) : PUNISHMENT_THRESHOLDS[i].action = label

RangesHolding(points) ==
    {i \in 1 .. Len(PUNISHMENT_THRESHOLDS) :
        /\ PUNISHMENT_THRESHOLDS[i].min <= points
        /\ (PUNISHMENT_THRESHOLDS[i].inf \/ points <= PUNISHMENT_THRESHOLDS[i].max)}

(* C8: every points value >= 0 lies in exactly one range of the table and   *)
(* get_punishment_action gives that range's label; no smaller value gets a  *)
(* more severe label; 14 -> Written Warning, 15 -> 3-Hour Ban,              *)
(* 99 -> 1-Month Ban, 100 -> Permanent Ban.                                 *)
C8_PunishmentTotalMonotonic ==
    (ret.op = "get_punishment_action" /\ ret.points >= 0) =>
        /\ Cardinality(RangesHolding(ret.points)) = 1
        /\ \A i \in RangesHolding(ret.points) :
              ret.result = PUNISHMENT_THRESHOLDS[i].action
        /\ ret.result \in Labels
        /\ \A q \in 0 .. ret.points :
              /\ get_punishment_action(q) \in Labels
              /\ Severity(get_punishment_action(q)) <= Severity(ret.result)
        /\ (ret.points = 14 => ret.result = "Written Warning")
        /\ (ret.points = 15 => ret.result = "3-Hour Ban")
        /\ (ret.points = 99 => ret.result = "1-Month Ban")
        /\ (ret.points = 100 => ret.result = "Permanent Ban")

(* the open-ended last range *)
C8_Witness ==
    /\ ret.op = "get_punishment_action"
    /\ ret.points > 100
    /\ ret.result = "Permanent Ban"

StoredOfType(data, user_id, violation_type) ==
    Cardinality({id \in UserWarningIds(data, user_id) \cap DOMAIN data.warnings :
                    data.warnings[id].violation_type = violation_type})

ActiveOfType(data, user_id, violation_type, t) ==
    Cardinality({id \in ActiveIds(data, user_id, t) :
                    data.warnings[id].violation_type = violation_type})

PointsFor(violation_type, count) ==
    VIOLATIONS[violation_type].base_points
    + VIOLATIONS[violation_type].repeat_penalty * count

(* C9 as stated: the points of a new warning for user U and type v are base *)
(* + repeat_penalty * (number of all stored warnings of U of type v,        *)
(* removed and expired ones included).                                      *)
C9_Original ==
    [][ (ret'.op = "callback" /\ assigned' # assigned) =>
          \A i \in 1 .. Len(ret'.details) :
              ret'.details[i].warning.points
                  = PointsFor(ret'.details[i].type,
                              StoredOfType(db, ret'.user_id, ret'.details[i].type)) ]_vars

(* C9: the points of a new warning for user U and type v are base +         *)
(* repeat_penalty * (number of U's warnings of type v that are active,      *)
(* neither removed nor expired, when the warning is issued).                *)
C9_PriorCountIsActiveCount ==
    [][ (ret'.op = "callback" /\ assigned' # assigned) =>
          \A i \in 1 .. Len(ret'.details) :
              LET d == ret'.details[i]
              IN  /\ d.warning.points
                        = PointsFor(d.type, ActiveOfType(db, ret'.user_id, d.type, now))
                  /\ d.warning.id \in DOMAIN db'.warnings
                  /\ db'.warnings[d.warning.id].points = d.warning.points ]_vars

(* a type issued again: once after the earlier warning was removed, once    *)
(* while it was active                                                      *)
C9_Witness ==
    /\ ret.op = "callback"
    /\ \E i \in 1 .. Len(ret.details) :
          LET d == ret.details[i]
          IN  /\ d.warning.points = VIOLATIONS[d.type].base_points
              /\ \E id \in UserWarningIds(db, ret.user_id) :
                    /\ id # d.warning.id
                    /\ db.warnings[id].violation_type = d.type
                    /\ GetRemoved(db.warnings[id])

(* C10 as stated: the stored total_points of every user record is the sum   *)
(* of the points of that user's active warnings.                            *)
C10_Original ==
    \A uk \in DOMAIN db.users :
        \A u \in UserIds :
            Str(u) = uk =>
                db.users[uk].total_points = SumPoints(db, ActiveIds(db, u, now))

(* C10: the stored total_points of every user record is the sum of the      *)
(* points of all warnings in its warning_ids, removed and expired ones      *)
(* included: add_warning adds to it and nothing subtracts from it.          *)
C10_TotalPointsIsSumOfAllIssued ==
    \A uk \in DOMAIN db.users :
        \A u \in UserIds :
            Str(u) = uk =>
                /\ UserWarningIds(db, u) \subseteq DOMAIN db.warnings
                /\ db.users[uk].total_points = SumPoints(db, UserWarningIds(db, u))

(* a user whose stored total exceeds its active points *)
C10_Witness ==
    \E u \in UserIds :
        /\ Str(u) \in DOMAIN db.users
        /\ db.users[Str(u)].total_points > get_user_points(db, u, now)
        /\ get_user_points(db, u, now) > 0

(* the warnings user_id's record lists, as records, in the order issued *)
StoredWarnings(data, user_id) ==
    IF Str(user_id) \in DOMAIN data.users
    THEN AllLoop(data, data.users[Str(user_id)].warnings, <<>>)
    ELSE <<>>

IsActiveOfPoints(w, violation_type, points, t) ==
    /\ w.violation_type = violation_type
    /\ w.points = points
    /\ IsActiveAt(w, t)

(* C11: for a user with no warnings, issuing "RDM / VDM" gives 10 active    *)
(* points and "Written Warning"; issuing it again while the first is active *)
(* gives the new warning 15 points, a total of 25 and "12-Hour Ban";        *)
(* removing the second warning gives a total of 10 and "Written Warning".   *)
C11_RepeatScenario ==
    [][ \A u \in UserIds :
          LET stored == StoredWarnings(db, u)
              issued == /\ ret'.op = "callback"
                        /\ assigned' # assigned
                        /\ ret'.user_id = u
                        /\ ret'.selected = <<"RDM / VDM">>
          IN  /\ (issued /\ Len(stored) = 0) =>
                    /\ ret'.details[1].warning.points = 10
                    /\ get_user_points(db', u, now') = 10
                    /\ ret'.total_points = 10
                    /\ ret'.action = "Written Warning"
              /\ ( /\ issued
                   /\ Len(stored) = 1
                   /\ IsActiveOfPoints(stored[1], "RDM / VDM", 10, now) ) =>
                    /\ ret'.details[1].warning.points = 15
                    /\ get_user_points(db', u, now') = 25
                    /\ ret'.total_points = 25
                    /\ ret'.action = "12-Hour Ban"
              /\ ( /\ ret'.op = "remove_warning"
                   /\ now' = now
                   /\ ret'.result = TRUE
                   /\ Len(stored) = 2
                   /\ IsActiveOfPoints(stored[1], "RDM / VDM", 10, now)
                   /\ IsActiveOfPoints(stored[2], "RDM / VDM", 15, now)
                   /\ ret'.warning_id = stored[2].id ) =>
                    /\ get_user_points(db', u, now') = 10
                    /\ get_punishment_action(get_user_points(db', u, now'))
                           = "Written Warning" ]_vars

(* the end of the scenario: 10 active, the 15 of the repeat removed *)
C11_Witness ==
    /\ ret.op = "remove_warning"
    /\ ret.result = TRUE
    /\ \E u \in UserIds :
          LET stored == StoredWarnings(db, u)
          IN  /\ Len(stored) = 2
              /\ IsActiveOfPoints(stored[1], "RDM / VDM", 10, now)
              /\ stored[2].violation_type = "RDM / VDM"
              /\ stored[2].points = 15
              /\ GetRemoved(stored[2])
              /\ stored[2].id = ret.warning_id
              /\ get_user_points(db, u, now) = 10

(* C12: remove_user_warnings(U) returns the number of U's warnings that     *)
(* were active just before the call, marks exactly those removed and leaves *)
(* every other warning as it was; right after it, a second call returns 0   *)
(* and get_user_points(U) is 0.                                             *)
C12_RemoveAllCountsActive ==
    [][ (ret'.op = "remove_user_warnings" /\ now' = now) =>
          LET U == ret'.user_id
              active == ActiveIds(db, U, now)
          IN  /\ ret'.result = Cardinality(active)
              /\ DOMAIN db'.warnings = DOMAIN db.warnings
              /\ \A id \in DOMAIN db.warnings :
                    IF id \in active
                    THEN /\ GetRemoved(db'.warnings[id])
                         /\ ~IsActiveAt(db'.warnings[id], now)
                    ELSE db'.warnings[id] = db.warnings[id]
              /\ db'.users = db.users
              /\ db'.bans = db.bans
              /\ remove_user_warnings(db', U, ret'.moderator_id, ret'.reason, now').result = 0
              /\ get_user_points(db', U, now') = 0 ]_vars

(* the call found three active warnings and one removed before *)
C12_Witness ==
    /\ ret.op = "remove_user_warnings"
    /\ ret.result = 3
    /\ Len(StoredWarnings(db, ret.user_id)) = 4
    /\ \E id \in UserWarningIds(db, ret.user_id) :
          /\ GetRemoved(db.warnings[id])
          /\ FromIsoFormat(db.warnings[id].removed_at) < now
    /\ Cardinality({id \in UserWarningIds(db, ret.user_id) :
                       /\ GetRemoved(db.warnings[id])
                       /\ FromIsoFormat(db.warnings[id].removed_at) = now}) = 3
    /\ get_user_points(db, ret.user_id, now) = 0

(* C13: remove_warning with an id that is not stored returns False and      *)
(* leaves every warning, user record and ban request as it was.             *)
C13_UnknownIdRejected ==
    [][ ( /\ ret'.op = "remove_warning"
          /\ now' = now
          /\ ret'.warning_id \notin DOMAIN db.warnings )
        => /\ ret'.result = FALSE
           /\ db'.warnings = db.warnings
           /\ db'.users = db.users
           /\ db'.bans = db.bans ]_vars

(* a rejected removal on a store that holds warnings and a ban request *)
C13_Witness ==
    /\ ret.op = "remove_warning"
    /\ ret.result = FALSE
    /\ ret.warning_id \notin DOMAIN db.warnings
    /\ DOMAIN db.warnings # {}
    /\ DOMAIN db.bans # {}

(* C14: get_user_points(u) for a user without a user record returns 0,      *)
(* raises nothing, creates no user record and changes nothing in the store. *)
C14_UnknownUserZeroPoints ==
    [][ ( /\ ret'.op = "get_user_points"
          /\ ret'.readOk
          /\ Str(ret'.user_id) \notin DOMAIN db.users )
        => /\ ret'.raised = FALSE
           /\ ret'.result = 0
           /\ Str(ret'.user_id) \notin DOMAIN db'.users
           /\ db' = db
           /\ lic' = lic ]_vars

(* the points of an unknown user asked for while another user has warnings *)
C14_Witness ==
    /\ ret.op = "get_user_points"
    /\ ret.readOk
    /\ Str(ret.user_id) \notin DOMAIN db.users
    /\ ret.result = 0
    /\ DOMAIN db.users # {}
    /\ DOMAIN db.warnings # {}

(* C15: remove_license(u) returns False and changes nothing when u has no   *)
(* license; otherwise it returns True, deletes u's entry from user_licenses *)
(* and the entry of u's key from license_users, leaves the other entries    *)
(* alone and appends one "remove" history entry naming u and that key.      *)
C15_RemoveLicense ==
    [][ (ret'.op = "remove_license" /\ now' = now) =>
          LET u == ret'.user_id
              uk == Str(ret'.user_id)
          IN  IF uk \notin DOMAIN lic.user_licenses
              THEN ret'.result = FALSE /\ lic' = lic
              ELSE LET k == lic.user_licenses[uk].license
                       n == Len(lic.license_history)
                   IN  /\ ret'.result = TRUE
                       /\ lic'.user_licenses = DictDel(lic.user_licenses, uk)
                       /\ lic'.license_users = DictDel(lic.license_users, k)
                       /\ k \notin DOMAIN lic'.license_users
                       /\ Len(lic'.license_history) = n + 1
                       /\ SubSeq(lic'.license_history, 1, n) = lic.license_history
                       /\ lic'.license_history[n + 1].action = "remove"
                       /\ lic'.license_history[n + 1].user_id = u
                       /\ lic'.license_history[n + 1].license = k ]_vars

(* a license removed while another user keeps its own *)
C15_Witness ==
    /\ ret.op = "remove_license"
    /\ ret.result = TRUE
    /\ Len(lic.license_history) >= 3
    /\ lic.license_history[Len(lic.license_history)].action = "remove"
    /\ lic.license_history[Len(lic.license_history)].user_id = ret.user_id
    /\ Str(ret.user_id) \notin DOMAIN lic.user_licenses
    /\ Cardinality(DOMAIN lic.user_licenses) = 1
    /\ Cardinality(DOMAIN lic.license_users) = 1

(* C16 as stated: once the request stored under a message id is completed,  *)
(* no add_ban_request or complete_ban_request call makes the status stored  *)
(* under that message id "pending" again.                                   *)
C16_Original ==
    [][ \A k \in DOMAIN db.bans :
          db.bans[k].status = "completed" =>
              /\ k \in DOMAIN db'.bans
              /\ db'.bans[k].status # "pending" ]_vars

(* C16: once the request stored under a message id is completed, it stays   *)
(* stored and completed through every complete_ban_request call and every   *)
(* add_ban_request call made with another message id; add_ban_request with  *)
(* that same message id is the one call that stores a pending request there.*)
C16_CompletedUnlessRecreated ==
    [][ \A k \in DOMAIN db.bans :
          db.bans[k].status = "completed" =>
              IF ret'.op = "add_ban_request" /\ now' = now /\ Str(ret'.message_id) = k
              THEN db'.bans[k].status = "pending"
              ELSE /\ k \in DOMAIN db'.bans
                   /\ db'.bans[k].status = "completed" ]_vars

(* a completed request, and another one created and completed after it *)
C16_Witness ==
    /\ Str(1) \in DOMAIN db.bans
    /\ Str(2) \in DOMAIN db.bans
    /\ db.bans[Str(1)].status = "completed"
    /\ db.bans[Str(2)].status = "completed"
    /\ FromIsoFormat(db.bans[Str(1)].completed_at)
           < FromIsoFormat(db.bans[Str(2)].timestamp)

(* the ban requests a step stored for user_id with total_points, pending *)
BansCreated(user_id, total_points) ==
    {k \in DOMAIN db'.bans \ DOMAIN db.bans :
        /\ db'.bans[k].status = "pending"
        /\ db'.bans[k].user_id = user_id
        /\ db'.bans[k].total_points = total_points}

(* C17 as stated: ViolationSelect.callback stores a pending ban request     *)
(* exactly when the user's active total after the new warnings is 15 or     *)
(* more, that is when get_punishment_action(total) is not "Written          *)
(* Warning"; with a total in 0 .. 14 it stores none.                        *)
C17_Original ==
    [][ (ret'.op = "callback" /\ assigned' # assigned) =>
          LET total == SumPoints(db', ActiveIds(db', ret'.user_id, now'))
          IN  /\ (total >= 15) <=> (get_punishment_action(total) # "Written Warning")
              /\ IF total >= 15
                 THEN Cardinality(BansCreated(ret'.user_id, total)) = 1
                 ELSE db'.bans = db.bans ]_vars

(* C17: ViolationSelect.callback stores one pending ban request exactly     *)
(* when the user's active total after the new warnings is 15 or more (when  *)
(* get_punishment_action(total) is not "Written Warning") and the guild has *)
(* the ban-request channel; otherwise it stores none.                       *)
C17_BanRequestAtThreshold ==
    [][ (ret'.op = "callback" /\ assigned' # assigned) =>
          LET total == SumPoints(db', ActiveIds(db', ret'.user_id, now'))
          IN  /\ (total >= 15) <=> (get_punishment_action(total) # "Written Warning")
              /\ IF total >= 15 /\ ret'.ban_channel
                 THEN /\ Cardinality(BansCreated(ret'.user_id, total)) = 1
                      /\ Cardinality(DOMAIN db'.bans) = Cardinality(DOMAIN db.bans) + 1
                 ELSE db'.bans = db.bans ]_vars

(* a ban request stored at a total of exactly 15, after a callback that     *)
(* stayed below it stored none                                              *)
C17_Witness ==
    /\ ret.op = "callback"
    /\ ret.ban_channel
    /\ ret.total_points = 15
    /\ Cardinality(DOMAIN db.bans) = 1
    /\ Cardinality(DOMAIN db.warnings) = 2
    /\ Len(ret.details) = 1
    /\ \E k \in DOMAIN db.bans :
          /\ db.bans[k].status = "pending"
          /\ db.bans[k].user_id = ret.user_id
          /\ db.bans[k].total_points = 15

(* C18: when the store file is missing or is not JSON, no operation raises: *)
(* load_data substitutes the empty document, so get_user_points returns 0,  *)
(* get_user_warnings and find_warnings_by_user return empty sequences,      *)
(* remove_warning and remove_license return False and write nothing, and    *)
(* get_user_license and get_license_user return None.                       *)
C18_UnreadableStoreIsEmpty ==
    [][ ( /\ "readOk" \in DOMAIN ret'
          /\ ret'.readOk = FALSE )
        => /\ ret'.raised = FALSE
           /\ ret'.op = "get_user_points" => ret'.result = 0
           /\ ret'.op \in {"get_user_warnings", "find_warnings_by_user"}
                 => ret'.result = <<>>
           /\ ret'.op \in {"remove_warning", "remove_license"}
                 => ret'.result = FALSE
           /\ ret'.op \in {"get_user_license", "get_license_user"}
                 => ret'.result = <<>>
           /\ db' = db
           /\ lic' = lic ]_vars

(* a removal that found nothing to read although the warning and the        *)
(* license it names are stored                                              *)
C18_Witness ==
    /\ ret.op = "remove_warning"
    /\ ret.readOk = FALSE
    /\ ret.result = FALSE
    /\ ret.warning_id \in DOMAIN db.warnings
    /\ ~GetRemoved(db.warnings[ret.warning_id])
    /\ DOMAIN lic.user_licenses # {}

(* both calls have returned and each read the file before either wrote it *)
Raced == \A p \in Calls : inflight[p].pc = "done" /\ inflight[p].seen = 0

EarlierWriter == inflight[CHOOSE p \in Calls : inflight[p].order = 1]

LaterWriter == inflight[CHOOSE p \in Calls : inflight[p].order = 2]

WarningList(data, user_id) ==
    IF Str(user_id) \in DOMAIN data.users
    THEN data.users[Str(user_id)].warnings ELSE <<>>

(* C19: when two add_warning calls both load the store before either saves, *)
(* the store after both saves is what the later writer loaded plus the      *)
(* later writer's warning only: one new warning record, the later writer's, *)
(* and one new entry in one warning list, the later writer's user's.  The   *)
(* earlier writer's warning is in no warning list of another user and no    *)
(* stored record is the record its caller received.                         *)
C19_LostUpdate ==
    Raced =>
        LET earlier == EarlierWriter
            later == LaterWriter
            base == LaterWriter.data
        IN  /\ earlier.data = base
            /\ db = later.added
            /\ db.warnings = DictPut(base.warnings, later.result.id, later.result)
            /\ \A u \in UserIds :
                  WarningList(db, u)
                      = WarningList(base, u)
                        \o (IF u = later.user_id THEN <<later.result.id>> ELSE <<>>)
            /\ earlier.result.user_id = earlier.user_id
            /\ IsDigit(earlier.result.id)
            /\ earlier.user_id # later.user_id
                  => earlier.result.id \notin UserWarningIds(db, earlier.user_id)
            /\ earlier.result # later.result
                  => \A k \in DOMAIN db.warnings : db.warnings[k] # earlier.result

(* two racing calls for different users on a store that held a warning: the *)
(* earlier writer's user has no new entry                                   *)
C19_Witness ==
    /\ Raced
    /\ EarlierWriter.user_id # LaterWriter.user_id
    /\ DOMAIN LaterWriter.data.warnings # {}
    /\ Cardinality(DOMAIN db.warnings) = Cardinality(DOMAIN LaterWriter.data.warnings) + 1
    /\ WarningList(db, EarlierWriter.user_id)
           = WarningList(EarlierWriter.data, EarlierWriter.user_id)
    /\ \A k \in DOMAIN db.warnings : db.warnings[k] # EarlierWriter.result

(* C20: when two add_warning calls, for the same user or for different      *)
(* users, both load the store before either saves, both compute the same    *)
(* next id and the warnings they return have equal ids.                     *)
C20_DuplicateIds ==
    /\ \A p, q \in Calls :
          ( /\ inflight[p].pc # "idle"
            /\ inflight[q].pc # "idle"
            /\ inflight[p].seen = 0
            /\ inflight[q].seen = 0 )
          => inflight[p].result.id = inflight[q].result.id
    /\ Raced => /\ Len(assigned) >= 2
                /\ assigned[Len(assigned)] = assigned[Len(assigned) - 1]
                /\ assigned[Len(assigned)] = LaterWriter.result.id
                /\ assigned[Len(assigned) - 1] = EarlierWriter.result.id

(* two racing calls for one user have returned the id after the stored ones *)
C20_Witness ==
    /\ Raced
    /\ EarlierWriter.user_id = LaterWriter.user_id
    /\ EarlierWriter.result.id = LaterWriter.result.id
    /\ EarlierWriter.result.id = Str(Cardinality(DOMAIN EarlierWriter.data.warnings) + 1)
    /\ DOMAIN EarlierWriter.data.warnings # {}

(* C21: remove_warning(id) on a warning that is already removed returns     *)
(* True again and overwrites removed_by, removed_at, removal_reason and     *)
(* expires_at with the values of the new call; removed stays true and every *)
(* user's active points are what they were before the call.                 *)
C21_ReRemovalRestamps ==
    [][ ( /\ ret'.op = "remove_warning"
          /\ now' = now
          /\ ret'.warning_id \in DOMAIN db.warnings
          /\ GetRemoved(db.warnings[ret'.warning_id]) )
        => LET w == db'.warnings[ret'.warning_id]
           IN  /\ ret'.result = TRUE
               /\ w.removed = TRUE
               /\ w.removed_by = ret'.moderator_id
               /\ w.removed_at = IsoFormat(now)
               /\ w.removal_reason = ret'.reason
               /\ w.expires_at = IsoFormat(now - 1)
               /\ \A u \in UserIds :
                     get_user_points(db', u, now') = get_user_points(db, u, now) ]_vars

(* a second removal, on a later day, by another moderator with another      *)
(* reason, while the user has an active warning                             *)
C21_Witness ==
    /\ ret.op = "remove_warning"
    /\ ret.result = TRUE
    /\ Len(ret.found) = 1
    /\ GetRemoved(ret.found[1])
    /\ ret.found[1].removed_by # ret.moderator_id
    /\ ret.found[1].removal_reason # ret.reason
    /\ FromIsoFormat(ret.found[1].removed_at) < now
    /\ db.warnings[ret.warning_id].removed_by = ret.moderator_id
    /\ db.warnings[ret.warning_id].removal_reason = ret.reason
    /\ FromIsoFormat(db.warnings[ret.warning_id].removed_at) = now
    /\ get_user_points(db, ret.found[1].user_id, now) > 0

RECURSIVE SeqPoints(_)
SeqPoints(ws) == IF Len(ws) = 0 THEN 0 ELSE Head(ws).points + SeqPoints(Tail(ws))

(* C22: get_user_warnings(U) returns exactly the warnings U's record refers *)
(* to that have now < expires_at and are not removed, each once, the newer  *)
(* before the older; their points add up to get_user_points(U) on the same  *)
(* store and clock.                                                         *)
C22_ActiveWarningsNewestFirst ==
    [][ (ret'.op = "get_user_warnings" /\ ret'.readOk /\ now' = now) =>
          LET U == ret'.user_id
              ws == ret'.result
          IN  /\ {ws[i].id : i \in 1 .. Len(ws)} = ActiveIds(db, U, now)
              /\ Len(ws) = Cardinality(ActiveIds(db, U, now))
              /\ \A i \in 1 .. Len(ws) : ws[i] = db.warnings[ws[i].id]
              /\ \A i, j \in 1 .. Len(ws) :
                    i < j => FromIsoFormat(ws[i].timestamp)
                                 >= FromIsoFormat(ws[j].timestamp)
              /\ SeqPoints(ws) = get_user_points(db, U, now)
              /\ db' = db ]_vars

(* two active warnings returned newest first, a removed or expired one of   *)
(* the same user left out                                                   *)
C22_Witness ==
    /\ ret.op = "get_user_warnings"
    /\ Len(ret.result) = 2
    /\ FromIsoFormat(ret.result[1].timestamp) > FromIsoFormat(ret.result[2].timestamp)
    /\ ParseInt(ret.result[1].id) > ParseInt(ret.result[2].id)
    /\ Len(StoredWarnings(db, ret.user_id)) = 3
    /\ ActiveIds(db, ret.user_id, now) = {ret.result[1].id, ret.result[2].id}

(* C23: the license history is append-only.  A successful add_license or    *)
(* remove_license appends exactly one entry at the end, an "add" or a       *)
(* "remove" naming its user; a failed one appends none; no step changes,    *)
(* reorders or deletes an entry that is already there.                      *)
C23_HistoryAppendOnly ==
    [][ LET h == lic.license_history
            h2 == lic'.license_history
            called == ret'.op \in {"add_license", "remove_license"} /\ now' = now
        IN  /\ Len(h2) >= Len(h)
            /\ SubSeq(h2, 1, Len(h)) = h
            /\ (called /\ ret'.result = TRUE) =>
                  /\ Len(h2) = Len(h) + 1
                  /\ h2[Len(h2)].action
                         = (IF ret'.op = "add_license" THEN "add" ELSE "remove")
                  /\ h2[Len(h2)].user_id = ret'.user_id
            /\ (called /\ ret'.result = FALSE) => lic' = lic
            /\ ~called => h2 = h ]_vars

(* a rejected add_license after adds and a remove: the history is as it was *)
C23_Witness ==
    /\ ret.op = "add_license"
    /\ ret.result = FALSE
    /\ Len(lic.license_history) >= 3
    /\ \E i \in 1 .. Len(lic.license_history) : lic.license_history[i].action = "remove"
    /\ \E i, j \in 1 .. Len(lic.license_history) :
          /\ i < j
          /\ lic.license_history[i].user_id = lic.license_history[j].user_id
          /\ lic.license_history[i].action = "add"
          /\ lic.license_history[j].action = "add"

IsPrefix(s, t) == Len(s) <= Len(t) /\ SubSeq(t, 1, Len(s)) = s

(* C24: warnings are never deleted.  In every step of the ledger's          *)
(* handlers run one after another, the stored warning ids only grow, every  *)
(* user record stays and its warning list only grows at the end, and the    *)
(* id, user_id, violation_type and points of a stored warning stay as they  *)
(* are.                                                                     *)
C24_WarningsNeverDeleted ==
    [][ /\ DOMAIN db.warnings \subseteq DOMAIN db'.warnings
        /\ DOMAIN db.users \subseteq DOMAIN db'.users
        /\ \A uk \in DOMAIN db.users :
              IsPrefix(db.users[uk].warnings, db'.users[uk].warnings)
        /\ \A id \in DOMAIN db.warnings :
              /\ db'.warnings[id].id = db.warnings[id].id
              /\ db'.warnings[id].user_id = db.warnings[id].user_id
              /\ db'.warnings[id].violation_type = db.warnings[id].violation_type
              /\ db'.warnings[id].points = db.warnings[id].points ]_vars

(* all the warnings of a user removed at once, all still stored and listed *)
C24_Witness ==
    /\ ret.op = "remove_user_warnings"
    /\ ret.result = 2
    /\ Cardinality(DOMAIN db.warnings) = 2
    /\ Len(WarningList(db, ret.user_id)) = 2
    /\ \A id \in DOMAIN db.warnings :
          GetRemoved(db.warnings[id]) /\ db.warnings[id].points > 0

(* whether the step is a removal that reaches warning id *)
RemovalOf(id) ==
    /\ now' = now
    /\ \/ /\ ret'.op = "remove_warning"
          /\ ret'.warning_id = id
          /\ ret'.result = TRUE
       \/ /\ ret'.op = "remove_user_warnings"
          /\ db.warnings[id].user_id = ret'.user_id
          /\ IsActiveAt(db.warnings[id], now)

(* C25: the expires_at of a stored warning changes only when that warning   *)
(* is removed: issuing, removing other warnings, the readers and the ban    *)
(* request operations leave it alone; a removal sets it to one day before   *)
(* the removal time, after which the warning is inactive and not counted,   *)
(* whatever its expiry was.                                                 *)
C25_ExpiryChangesOnlyOnRemoval ==
    [][ \A id \in DOMAIN db.warnings :
          IF RemovalOf(id)
          THEN /\ db'.warnings[id].expires_at = IsoFormat(now - 1)
               /\ ~IsActiveAt(db'.warnings[id], now')
               /\ ~Counted(db', id, now')
          ELSE db'.warnings[id].expires_at = db.warnings[id].expires_at ]_vars

(* a four-week warning removed on the day it was issued, while the user's   *)
(* other warning keeps its expiry                                           *)
C25_Witness ==
    /\ ret.op = "remove_warning"
    /\ ret.result = TRUE
    /\ Len(ret.found) = 1
    /\ ret.found[1].violation_type = "Mass RDM / Mass VDM"
    /\ FromIsoFormat(ret.found[1].expires_at) = now + 4 * DaysPerWeek
    /\ db.warnings[ret.warning_id].expires_at = IsoFormat(now - 1)
    /\ \E id \in DOMAIN db.warnings :
          /\ id # ret.warning_id
          /\ IsActiveAt(db.warnings[id], now)

(* C26: get_punishment_action(points) is "Written Warning", the label of    *)
(* the first and least severe range, for every points value that no range   *)
(* of the table contains; those values are the negative integers.           *)
C26_DefaultIsLowestLabel ==
    ret.op = "get_punishment_action" =>
        /\ (RangesHolding(ret.points) = {}) <=> (ret.points < 0)
        /\ RangesHolding(ret.points) = {} =>
              /\ ret.result = "Written Warning"
              /\ ret.result = PUNISHMENT_THRESHOLDS[1].action
              /\ \A q \in 0 .. MaxPoints :
                    Severity(ret.result) <= Severity(get_punishment_action(q))

(* a negative total *)
C26_Witness ==
    /\ ret.op = "get_punishment_action"
    /\ ret.points < -1
    /\ RangesHolding(ret.points) = {}
    /\ ret.result = "Written Warning"

(* C27: when load_data fails inside add_warning while the file holds        *)
(* warnings, the call still returns a warning: its id is "1", an id that    *)
(* may have been assigned before, and the document it saves holds that      *)
(* warning and its user only; the earlier warnings, users and ban requests  *)
(* are gone from the file.                                                  *)
C27_FailedReadOverwritesStore ==
    [][ ( /\ ret'.op = "add_warning"
          /\ ret'.readOk = FALSE
          /\ now' = now )
        => LET w == ret'.result
           IN  /\ ret'.raised = FALSE
               /\ w.id = Str(1)
               /\ w.user_id = ret'.user_id
               /\ db'.warnings = DictPut(EmptyDict, Str(1), w)
               /\ db'.users = DictPut(EmptyDict, Str(ret'.user_id),
                                      [total_points |-> w.points,
                                       warnings |-> <<Str(1)>>, bans |-> <<>>])
               /\ db'.bans = EmptyDict
               /\ assigned' = Append(assigned, Str(1)) ]_vars

(* the third warning issued got id "1" again; warning "2", its user and the *)
(* ban request that had been stored are no longer in the file               *)
C27_Witness ==
    /\ ret.op = "add_warning"
    /\ ret.readOk = FALSE
    /\ assigned = <<Str(1), Str(2), Str(1)>>
    /\ DOMAIN db.warnings = {Str(1)}
    /\ Cardinality(DOMAIN db.users) = 1
    /\ nextMsg > 1
    /\ DOMAIN db.bans = {}

(* user_licenses and license_users of a license document name each other *)
InverseIndexes(doc) ==
    /\ \A uk \in DOMAIN doc.user_licenses :
          /\ doc.user_licenses[uk].license \in DOMAIN doc.license_users
          /\ Str(doc.license_users[doc.user_licenses[uk].license].user_id) = uk
    /\ \A k \in DOMAIN doc.license_users :
          /\ Str(doc.license_users[k].user_id) \in DOMAIN doc.user_licenses
          /\ doc.user_licenses[Str(doc.license_users[k].user_id)].license = k

(* C28: under every interleaving of the loads and saves of add_license and  *)
(* remove_license calls, the file and every copy about to be written over   *)
(* it have user_licenses and license_users as inverses of each other, also  *)
(* after two add_license calls that gave one key to two users both returned *)
(* True.                                                                    *)
C28_RacingWritesKeepInverse ==
    /\ InverseIndexes(lic)
    /\ \A p \in Calls :
          inflight[p].pc = "loaded" =>
              /\ InverseIndexes(inflight[p].loaded)
              /\ InverseIndexes(inflight[p].copy)

(* two add_license calls have given one key to two users and both returned  *)
(* True; the file names one of the two users                                *)
C28_Witness ==
    /\ \A p \in Calls :
          /\ inflight[p].pc = "done"
          /\ inflight[p].kind = "add_license"
          /\ inflight[p].result = TRUE
    /\ inflight[1].license = inflight[2].license
    /\ inflight[1].user_id # inflight[2].user_id
    /\ inflight[1].license \in DOMAIN lic.license_users
    /\ Cardinality(DOMAIN lic.user_licenses) = 1

(* C29: a warning that is inactive, removed or with now >= expires_at,      *)
(* stays inactive: while the clock does not go back, no handler sets        *)
(* removed to false again or puts expires_at after the clock, and a user's  *)
(* active points go up only in a step that issues that user a warning.      *)
C29_InactiveStaysInactive ==
    [][ /\ now' >= now
        /\ \A id \in DOMAIN db.warnings :
              /\ GetRemoved(db.warnings[id]) => GetRemoved(db'.warnings[id])
              /\ ~IsActiveAt(db.warnings[id], now) =>
                    /\ ~IsActiveAt(db'.warnings[id], now')
                    /\ FromIsoFormat(db'.warnings[id].expires_at) <= now'
                    /\ ~Counted(db', id, now')
        /\ \A u \in UserIds :
              get_user_points(db', u, now') > get_user_points(db, u, now) =>
                  /\ ret'.op = "callback"
                  /\ ret'.user_id = u
                  /\ assigned' # assigned ]_vars

(* an expired warning and one removed the day before, both gone through a   *)
(* removal of all the user's warnings that found nothing active             *)
C29_Witness ==
    /\ ret.op = "remove_user_warnings"
    /\ ret.result = 0
    /\ get_user_points(db, ret.user_id, now) = 0
    /\ \E a, b \in UserWarningIds(db, ret.user_id) :
          /\ ~GetRemoved(db.warnings[a])
          /\ FromIsoFormat(db.warnings[a].expires_at) <= now
          /\ GetRemoved(db.warnings[b])
          /\ FromIsoFormat(db.warnings[b].removed_at) < now

(* the places, user record and position, where the warning lists hold id *)
ListedAt(data, id) ==
    {<<uk, i>> \in UNION {{uk} \X (1 .. Len(data.users[uk].warnings)) :
                             uk \in DOMAIN data.users} :
        data.users[uk].warnings[i] = id}

(* C30: after any sequence of the ledger's handlers run one after another   *)
(* from the empty store, every stored warning id is held once, by one       *)
(* user's warning list, that user being the warning's user_id, and every id *)
(* in a warning list is the id of a stored warning.                         *)
C30_ListsMatchWarnings ==
    /\ \A id \in DOMAIN db.warnings :
          /\ db.warnings[id].id = id
          /\ Cardinality(ListedAt(db, id)) = 1
          /\ \A place \in ListedAt(db, id) :
                place[1] = Str(db.warnings[id].user_id)
    /\ \A uk \in DOMAIN db.users :
          \A i \in 1 .. Len(db.users[uk].warnings) :
              db.users[uk].warnings[i] \in DOMAIN db.warnings

(* both users hold a warning, one of them removed *)
C30_Witness ==
    /\ Cardinality(DOMAIN db.users) = 2
    /\ \A uk \in DOMAIN db.users : Len(db.users[uk].warnings) = 1
    /\ Cardinality(DOMAIN db.warnings) = 2
    /\ \E id \in DOMAIN db.warnings : GetRemoved(db.warnings[id])
    /\ \E id \in DOMAIN db.warnings : ~GetRemoved(db.warnings[id])

=============================================================================
